---------------------------- MODULE Spec2Model ----------------------------
(***************************************************************************)
(* A model of the RFC 5870 ('geo' URI) parser of pfs/rfc5870/parser.hpp    *)
(* and of the value object it fills (pfs/uri/geo/geo.hpp).                 *)
(*                                                                         *)
(* Text is a sequence of one-character strings.  A cursor (an iterator of  *)
(* the source) is an index into the text: `first' is 1 and `last' is       *)
(* Len(s) + 1.  Every advance_* function of the source is an operator that *)
(* is computed the way the function computes it and returns a record with  *)
(* the function's result (ret), the caller's cursor after the call (pos)   *)
(* and whatever else the call writes (out parameters, the context, the     *)
(* error code, errno).  The two loops of the source that need not end      *)
(* (in advance_parameter and in advance_p) are steps of the state machine. *)
(***************************************************************************)
EXTENDS Integers, Sequences, FiniteSets, TLC

(***************************************************************************)
(* Bounds of the model.                                                    *)
(***************************************************************************)
\* The longest text enumerated over an alphabet.
MaxLen == 3
\* The magnitude above which strtod reports a range error (DBL_MAX of the
\* build, scaled down so that texts of a few digits overflow).
MaxReal == 999
\* The number of loop iterations that are counted.
MaxIter == 2

\* errno's value after a range error (<cerrno>).
ERANGE == 34

(***************************************************************************)
(* Text helpers.                                                           *)
(***************************************************************************)
Range(f) == {f[i] : i \in DOMAIN f}

IndexOf(seq, ch) == CHOOSE i \in 1..Len(seq) : seq[i] = ch

\* The end iterator of text s.
End(s) == Len(s) + 1

\* The text [from, to) of s.
Slice(s, from, to) == [i \in 1..(to - from) |-> s[from + i - 1]]

\* All texts over alphabet A of length at most n.
RECURSIVE Texts(_, _)
Texts(A, n) ==
    IF n = 0 THEN {<<>>}
    ELSE LET T == Texts(A, n - 1)
         IN  T \cup {Append(t, a) : t \in {u \in T : Len(u) = n - 1}, a \in A}

DigitChars == <<"0", "1", "2", "3", "4", "5", "6", "7", "8", "9">>
LowerChars == <<"a", "b", "c", "d", "e", "f", "g", "h", "i", "j", "k", "l", "m",
                "n", "o", "p", "q", "r", "s", "t", "u", "v", "w", "x", "y", "z">>
UpperChars == <<"A", "B", "C", "D", "E", "F", "G", "H", "I", "J", "K", "L", "M",
                "N", "O", "P", "Q", "R", "S", "T", "U", "V", "W", "X", "Y", "Z">>

(***************************************************************************)
(* Character classifiers.                                                  *)
(***************************************************************************)
\* std::toupper(ch, std::locale()) on ASCII.
toupper(ch) ==
    IF ch \in Range(LowerChars) THEN UpperChars[IndexOf(LowerChars, ch)] ELSE ch

is_equals_ignorecase(a, b) == toupper(a) = toupper(b)

is_digit(ch) == ch \in Range(DigitChars)

is_alpha(ch) == ch \in Range(UpperChars) \cup Range(LowerChars)

is_hexdigit(ch) ==
    \/ is_digit(ch)
    \/ ch \in {"a", "b", "c", "d", "e", "f", "A", "B", "C", "D", "E", "F"}

is_p_unreserved(ch) == ch \in {"[", "]", ":", "&", "+", "$"}

is_unreserved(ch) ==
    \/ is_alpha(ch)
    \/ is_digit(ch)
    \/ ch \in {"-", "_", ".", "!", "~", "*", "'", "(", ")"}

to_digit(ch, radix) ==
    IF radix < 2 \/ radix > 36 THEN -1
    ELSE LET digit == IF is_digit(ch) THEN IndexOf(DigitChars, ch) - 1
                      ELSE IF ch \in Range(LowerChars)
                           THEN IndexOf(LowerChars, ch) - 1 + 10
                      ELSE IF ch \in Range(UpperChars)
                           THEN IndexOf(UpperChars, ch) - 1 + 10
                      ELSE -1
         IN  IF digit = -1 \/ digit >= radix THEN -1 ELSE digit

(***************************************************************************)
(* compare_and_assign(a, b): the caller's cursor after the call and the    *)
(* result.                                                                 *)
(***************************************************************************)
compare_and_assign(a, b) ==
    IF a # b THEN [pos |-> b, ret |-> TRUE] ELSE [pos |-> a, ret |-> FALSE]

(***************************************************************************)
(* advance_pct_encoded                                                     *)
(***************************************************************************)
\* multipliers with the two weights exchanged.
multipliers_swapped == <<1, 16>>

multipliers == <<16, 1>>
count == Len(multipliers)

\* The for loop of advance_pct_encoded: at most `count' hex digits.
RECURSIVE pct_loop(_, _, _, _)
pct_loop(s, p, index, encoded_char) ==
    IF p # End(s) /\ is_hexdigit(s[p]) /\ index < count
    THEN pct_loop(s, p + 1, index + 1,
                  encoded_char + to_digit(s[p], 16) * multipliers[index + 1])
    ELSE [p |-> p, index |-> index, encoded_char |-> encoded_char]

\* result0 is *result on entry.
advance_pct_encoded(s, pos, result0) ==
    LET fail == [ret |-> FALSE, pos |-> pos, result |-> result0]
    IN  IF pos = End(s) THEN fail
        ELSE IF s[pos] # "%" THEN fail
        ELSE IF pos + 1 = End(s) THEN fail
        ELSE LET l == pct_loop(s, pos + 1, 0, 0)
             IN  IF l.index # count THEN fail
                 ELSE LET c == compare_and_assign(pos, l.p)
                      IN  [ret |-> c.ret, pos |-> c.pos, result |-> l.encoded_char]

(***************************************************************************)
(* advance_sequence_ignorecase: `*p++' and `*first2++' step both cursors   *)
(* before the comparison's result ends the loop.                           *)
(***************************************************************************)
RECURSIVE sequence_loop(_, _, _, _)
sequence_loop(s, p, lit, first2) ==
    IF p # End(s) /\ first2 # End(lit)
    THEN IF is_equals_ignorecase(s[p], lit[first2])
         THEN sequence_loop(s, p + 1, lit, first2 + 1)
         ELSE [p |-> p + 1, first2 |-> first2 + 1]
    ELSE [p |-> p, first2 |-> first2]

advance_sequence_ignorecase(s, pos, lit) ==
    LET l == sequence_loop(s, pos, lit, 1)
    IN  IF l.first2 = End(lit) THEN [ret |-> TRUE, pos |-> l.p]
        ELSE [ret |-> FALSE, pos |-> pos]

(***************************************************************************)
(* advance_geo_scheme                                                      *)
(***************************************************************************)
advance_geo_scheme(s, pos) ==
    IF pos = End(s) THEN [ret |-> FALSE, pos |-> pos]
    ELSE advance_sequence_ignorecase(s, pos, <<"g", "e", "o">>)

(***************************************************************************)
(* Numbers.  A value of number_type is <<m, k>>, standing for m / 10^k     *)
(* with no trailing zero in the fraction (6.500 and 6.5 are both           *)
(* <<65, 1>>); the rounding of a double is not modelled.                   *)
(***************************************************************************)
RECURSIVE Pow10(_)
Pow10(k) == IF k = 0 THEN 1 ELSE 10 * Pow10(k - 1)

RECURSIVE Normalize(_, _)
Normalize(m, k) ==
    IF k > 0 /\ m % 10 = 0 THEN Normalize(m \div 10, k - 1) ELSE <<m, k>>

Zero == <<0, 0>>

\* The value of a run of decimal digits.
RECURSIVE DigitsValue(_)
DigitsValue(ds) ==
    IF ds = <<>> THEN 0
    ELSE 10 * DigitsValue(SubSeq(ds, 1, Len(ds) - 1))
         + to_digit(ds[Len(ds)], 10)

\* The first position at or after p of s that holds no digit: the loops
\* `while (p != last && is_digit(*p)) ++p'.
RECURSIVE digits_end(_, _)
digits_end(s, p) ==
    IF p # End(s) /\ is_digit(s[p]) THEN digits_end(s, p + 1) ELSE p

\* errc of error.hpp, as the error_code's value.
errc_success == "success"
errc_bad_number == "bad_number"

\* std::strtod on str under a locale whose decimal point is dp: the
\* longest prefix [sign] digits [dp digits] is converted; endptr is the
\* position after it (1 when nothing is converted); erange is whether the
\* value is out of the range of a double (strtod then sets errno).
strtod(str, dp) ==
    LET signed  == str # <<>> /\ str[1] \in {"-", "+"}
        p0      == IF signed THEN 2 ELSE 1
        p1      == digits_end(str, p0)
        point   == p1 # End(str) /\ str[p1] = dp
        p2      == IF point THEN digits_end(str, p1 + 1) ELSE p1
        ints    == Slice(str, p0, p1)
        fracs   == IF point THEN Slice(str, p1 + 1, p2) ELSE <<>>
        none    == ints = <<>> /\ fracs = <<>>
        mag     == DigitsValue(ints) * Pow10(Len(fracs)) + DigitsValue(fracs)
        m       == IF signed /\ str[1] = "-" THEN -mag ELSE mag
    IN  [value  |-> IF none THEN Zero ELSE Normalize(m, Len(fracs)),
         endptr |-> IF none THEN 1 ELSE p2,
         erange |-> ~none /\ mag > MaxReal * Pow10(Len(fracs))]

\* strtoreal: errno is read after the conversion and is never cleared
\* before it, so errno0, the value on entry, decides too.  r is what
\* strtod returned.
strtoreal_check(numstr, errno0, r) ==
    [ok    |-> (IF r.erange THEN ERANGE ELSE errno0) # ERANGE
               /\ r.endptr = End(numstr),
     n     |-> r.value,
     errno |-> IF r.erange THEN ERANGE ELSE errno0]

strtoreal(numstr, errno0, dp) == strtoreal_check(numstr, errno0, strtod(numstr, dp))

(***************************************************************************)
(* advance_number.  pnum0 and ec0 are *pnum and ec on entry; dp is         *)
(* locale_decimal_point().                                                 *)
(***************************************************************************)
\* The end of advance_number: r is what strtoreal returned for the text
\* [pos, p).
advance_number_convert(pos, p, pnum0, ec0, r) ==
    IF ~r.ok
    THEN [ret |-> FALSE, pos |-> pos, pnum |-> pnum0,
          ec |-> errc_bad_number, errno |-> r.errno]
    ELSE [ret |-> compare_and_assign(pos, p).ret,
          pos |-> compare_and_assign(pos, p).pos,
          pnum |-> r.n, ec |-> ec0, errno |-> r.errno]

advance_number(s, pos, allow_negative_sign, pnum0, ec0, errno0, dp) ==
    LET fail == [ret |-> FALSE, pos |-> pos, pnum |-> pnum0, ec |-> ec0,
                 errno |-> errno0]
    IN  IF pos = End(s) THEN fail
        ELSE
        LET neg    == allow_negative_sign /\ s[pos] = "-"
            p1     == IF neg THEN pos + 1 ELSE pos
            p2     == digits_end(s, p1)
            point  == p2 # End(s) /\ s[p2] = "."
            p3     == IF point THEN digits_end(s, p2 + 1) ELSE p2
            numstr == (IF neg THEN <<"-">> ELSE <<>>) \o Slice(s, p1, p2)
                      \o (IF point THEN <<dp>> \o Slice(s, p2 + 1, p3) ELSE <<>>)
        IN  IF p2 = p1 THEN fail                      \* no digit found
            ELSE IF point /\ p3 = p2 + 1 THEN fail    \* "." with no digit
            ELSE advance_number_convert(pos, p3, pnum0, ec0,
                                        strtoreal(numstr, errno0, dp))

(***************************************************************************)
(* The value object, basic_uri of geo.hpp.  _altitude and _uval are pairs  *)
(* <<value, present>>; _parameters is a std::map, here the set of its      *)
(* <<name, value>> entries, which std::map keeps distinct by name.         *)
(***************************************************************************)
wgs84_string == <<"w", "g", "s", "8", "4">>

basic_uri ==
    [_latitude   |-> Zero,
     _longitude  |-> Zero,
     _altitude   |-> <<Zero, FALSE>>,
     _crslabel   |-> wgs84_string,
     _uval       |-> <<Zero, FALSE>>,
     _parameters |-> {}]

set_latitude(u, n) == [u EXCEPT !._latitude = n]

set_longitude(u, n) == [u EXCEPT !._longitude = n]

\* set_altitude that takes the value 0 for no altitude.
set_altitude_unless_0(u, n) == [u EXCEPT !._altitude = <<n, n # Zero>>]

set_altitude(u, n) == [u EXCEPT !._altitude = <<n, TRUE>>]

set_crs(u, s) == [u EXCEPT !._crslabel = s]

set_uncertainty(u, n) == [u EXCEPT !._uval = <<n, TRUE>>]

\* insert_map on a map whose insert replaces the entry of a key present.
insert_map_overwrites(m, key, value) ==
    {e \in m : e[1] # key} \cup {<<key, value>>}

\* std::map::insert: an entry whose key is present is not replaced.
insert_map(m, key, value) ==
    IF \E e \in m : e[1] = key THEN m ELSE m \cup {<<key, value>>}

insert(u, pname, pvalue) ==
    [u EXCEPT !._parameters = insert_map(u._parameters, pname, pvalue)]

clear_altitude(u) == [u EXCEPT !._altitude = <<Zero, FALSE>>]

has_altitude(u) == u._altitude[2]

clear_uncertainty(u) == [u EXCEPT !._uval = <<Zero, FALSE>>]

has_uncertainty(u) == u._uval[2]

altitude(u) == u._altitude[1]

uncertainty(u) == u._uval[1]

has_parameter(u, pname) == \E e \in u._parameters : e[1] = pname

\* count() of the value object.
uri_count(u) == Cardinality(u._parameters)

parameter(u, pname) ==
    IF has_parameter(u, pname)
    THEN (CHOOSE e \in u._parameters : e[1] = pname)[2]
    ELSE <<>>

is_wgs84(u) == u._crslabel = wgs84_string

min_wgs84_latitude == <<-90, 0>>

max_wgs84_latitude == <<90, 0>>

\* The constructor basic_uri(latitude, longitude).
basic_uri_of(latitude, longitude) ==
    set_longitude(set_latitude(basic_uri, latitude), longitude)

north_pole == basic_uri_of(max_wgs84_latitude, Zero)

south_pole == basic_uri_of(min_wgs84_latitude, Zero)

\* is_north_pole with a test of the longitude added.
is_north_pole_at_longitude_0(u) ==
    is_wgs84(u) /\ u._latitude = max_wgs84_latitude /\ u._longitude = Zero

is_north_pole(u) == is_wgs84(u) /\ u._latitude = max_wgs84_latitude

is_south_pole(u) == is_wgs84(u) /\ u._latitude = min_wgs84_latitude

\* The characters of the model's texts in the order of their codes.
CharCodes ==
    <<"%", "-", ".">> \o DigitChars \o <<":", ";", "=">> \o UpperChars
        \o LowerChars

\* operator < of std::string: the key order of std::map.
RECURSIVE less(_, _)
less(a, b) ==
    IF b = <<>> THEN FALSE
    ELSE IF a = <<>> THEN TRUE
    ELSE IF a[1] # b[1]
         THEN IndexOf(CharCodes, a[1]) < IndexOf(CharCodes, b[1])
    ELSE less(Tail(a), Tail(b))

\* _parameters.begin(): the entry with the least key.
begin(m) == CHOOSE e \in m : \A o \in m \ {e} : less(e[1], o[1])

(***************************************************************************)
(* The parse context: simple_api_interface with its six callbacks bound to *)
(* the setters of a value object (make_context).  `calls' records every    *)
(* callback invocation with its arguments, in order.                       *)
(***************************************************************************)
make_context(u) == [uri |-> u, calls |-> <<>>]

on_latitude(ctx, n) ==
    [uri |-> set_latitude(ctx.uri, n),
     calls |-> Append(ctx.calls, <<"on_latitude", n>>)]

on_longitude(ctx, n) ==
    [uri |-> set_longitude(ctx.uri, n),
     calls |-> Append(ctx.calls, <<"on_longitude", n>>)]

on_altitude(ctx, n) ==
    [uri |-> set_altitude(ctx.uri, n),
     calls |-> Append(ctx.calls, <<"on_altitude", n>>)]

on_crslabel(ctx, s) ==
    [uri |-> set_crs(ctx.uri, s),
     calls |-> Append(ctx.calls, <<"on_crslabel", s>>)]

on_uval(ctx, n) ==
    [uri |-> set_uncertainty(ctx.uri, n),
     calls |-> Append(ctx.calls, <<"on_uval", n>>)]

on_parameter(ctx, key, value) ==
    [uri |-> insert(ctx.uri, key, value),
     calls |-> Append(ctx.calls, <<"on_parameter", key, value>>)]

(***************************************************************************)
(* advance_coordinates.  The local `coord' is uninitialised and is read    *)
(* only after advance_number has stored into it.                           *)
(***************************************************************************)
\* advance_coordinates_altitude, were it to hand the local cursor to the
\* caller when the third number fails.
advance_coordinates_altitude_commits(pos, ctx2, c) ==
    IF ~c.ret
    THEN [ret |-> FALSE, pos |-> c.pos, ctx |-> ctx2, ec |-> c.ec,
          errno |-> c.errno]
    ELSE [ret |-> compare_and_assign(pos, c.pos).ret,
          pos |-> compare_and_assign(pos, c.pos).pos,
          ctx |-> on_altitude(ctx2, c.pnum), ec |-> c.ec, errno |-> c.errno]

\* advance_coordinates_altitude with on_altitude called a second time.
advance_coordinates_altitude_twice(pos, ctx2, c) ==
    IF ~c.ret
    THEN [ret |-> FALSE, pos |-> pos, ctx |-> ctx2, ec |-> c.ec,
          errno |-> c.errno]
    ELSE [ret |-> compare_and_assign(pos, c.pos).ret,
          pos |-> compare_and_assign(pos, c.pos).pos,
          ctx |-> on_altitude(on_altitude(ctx2, c.pnum), c.pnum),
          ec |-> c.ec, errno |-> c.errno]

\* After the third advance_number, which returned c.
advance_coordinates_altitude(pos, ctx2, c) ==
    IF ~c.ret
    THEN [ret |-> FALSE, pos |-> pos, ctx |-> ctx2, ec |-> c.ec,
          errno |-> c.errno]
    ELSE [ret |-> compare_and_assign(pos, c.pos).ret,
          pos |-> compare_and_assign(pos, c.pos).pos,
          ctx |-> on_altitude(ctx2, c.pnum), ec |-> c.ec, errno |-> c.errno]

\* After the second advance_number, which returned b.
advance_coordinates_longitude(s, pos, ctx1, dp, b) ==
    IF ~b.ret
    THEN [ret |-> FALSE, pos |-> pos, ctx |-> ctx1, ec |-> b.ec,
          errno |-> b.errno]
    \* "Accepted short list": returns true, pos is not assigned
    ELSE IF b.pos = End(s) \/ s[b.pos] # ","
    THEN [ret |-> TRUE, pos |-> pos, ctx |-> on_longitude(ctx1, b.pnum),
          ec |-> b.ec, errno |-> b.errno]
    ELSE advance_coordinates_altitude(pos, on_longitude(ctx1, b.pnum),
             advance_number(s, b.pos + 1, TRUE, b.pnum, b.ec, b.errno, dp))

\* After the first advance_number, which returned a.
advance_coordinates_latitude(s, pos, ctx, dp, a) ==
    IF ~a.ret
    THEN [ret |-> FALSE, pos |-> pos, ctx |-> ctx, ec |-> a.ec,
          errno |-> a.errno]
    ELSE IF a.pos = End(s) \/ s[a.pos] # ","
    THEN [ret |-> FALSE, pos |-> pos, ctx |-> on_latitude(ctx, a.pnum),
          ec |-> a.ec, errno |-> a.errno]
    ELSE advance_coordinates_longitude(s, pos, on_latitude(ctx, a.pnum), dp,
             advance_number(s, a.pos + 1, TRUE, a.pnum, a.ec, a.errno, dp))

advance_coordinates(s, pos, ctx, ec0, errno0, dp) ==
    IF pos = End(s)
    THEN [ret |-> FALSE, pos |-> pos, ctx |-> ctx, ec |-> ec0, errno |-> errno0]
    ELSE advance_coordinates_latitude(s, pos, ctx, dp,
             advance_number(s, pos, TRUE, Zero, ec0, errno0, dp))

(***************************************************************************)
(* advance_labeltext                                                       *)
(***************************************************************************)
\* is_labelchar without the '-'.
is_labelchar_without_hyphen(ch) == is_alpha(ch) \/ is_digit(ch)

is_labelchar(ch) == ch = "-" \/ is_alpha(ch) \/ is_digit(ch)

RECURSIVE labeltext_end(_, _)
labeltext_end(s, p) ==
    IF p # End(s) /\ is_labelchar(s[p]) THEN labeltext_end(s, p + 1) ELSE p

advance_labeltext(s, pos, labeltext0) ==
    IF pos = End(s) \/ ~is_labelchar(s[pos])
    THEN [ret |-> FALSE, pos |-> pos, labeltext |-> labeltext0]
    ELSE LET p == labeltext_end(s, pos + 1)
             c == compare_and_assign(pos, p)
         IN  [ret |-> c.ret, pos |-> c.pos, labeltext |-> Slice(s, pos, p)]

(***************************************************************************)
(* advance_crsp                                                            *)
(***************************************************************************)
advance_crsp(s, pos, ctx) ==
    LET fail   == [ret |-> FALSE, pos |-> pos, ctx |-> ctx]
        prefix == advance_sequence_ignorecase(s, pos, <<";", "c", "r", "s", "=">>)
    IN  IF pos = End(s) \/ ~prefix.ret THEN fail
        ELSE
        LET w == advance_sequence_ignorecase(s, prefix.pos, wgs84_string)
            l == advance_labeltext(s, prefix.pos, <<>>)
        IN  IF w.ret
            THEN LET c == compare_and_assign(pos, w.pos)
                 IN  [ret |-> c.ret, pos |-> c.pos,
                      ctx |-> on_crslabel(ctx, wgs84_string)]
            ELSE IF ~l.ret THEN fail
            ELSE LET c == compare_and_assign(pos, l.pos)
                 IN  [ret |-> c.ret, pos |-> c.pos,
                      ctx |-> on_crslabel(ctx, l.labeltext)]

(***************************************************************************)
(* advance_uncp                                                            *)
(***************************************************************************)
\* After advance_number, which returned n.
advance_uncp_uval(pos, ctx, n) ==
    IF ~n.ret
    THEN [ret |-> FALSE, pos |-> pos, ctx |-> ctx, ec |-> n.ec,
          errno |-> n.errno]
    ELSE [ret |-> compare_and_assign(pos, n.pos).ret,
          pos |-> compare_and_assign(pos, n.pos).pos,
          ctx |-> on_uval(ctx, n.pnum), ec |-> n.ec, errno |-> n.errno]

advance_uncp(s, pos, ctx, ec0, errno0, dp) ==
    LET prefix == advance_sequence_ignorecase(s, pos, <<";", "u", "=">>)
    IN  IF pos = End(s) \/ ~prefix.ret
        THEN [ret |-> FALSE, pos |-> pos, ctx |-> ctx, ec |-> ec0,
              errno |-> errno0]
        ELSE advance_uncp_uval(pos, ctx,
                 advance_number(s, prefix.pos, FALSE, Zero, ec0, errno0, dp))

(***************************************************************************)
(* advance_pvalue.  At a '%' the cursor is stepped over it and             *)
(* advance_pct_encoded is then called on what follows.                     *)
(***************************************************************************)
RECURSIVE pvalue_loop(_, _)
pvalue_loop(s, p) ==
    IF p = End(s) THEN [ok |-> TRUE, p |-> p]
    ELSE IF is_p_unreserved(s[p]) \/ is_unreserved(s[p])
    THEN pvalue_loop(s, p + 1)
    ELSE IF s[p] = "%"
    THEN LET e == advance_pct_encoded(s, p + 1, 0)
         IN  IF ~e.ret THEN [ok |-> FALSE, p |-> p + 1]
             ELSE pvalue_loop(s, e.pos)
    ELSE [ok |-> TRUE, p |-> p]

advance_pvalue(s, pos, pvalue0) ==
    LET fail == [ret |-> FALSE, pos |-> pos, pvalue |-> pvalue0]
    IN  IF pos = End(s) THEN fail
        ELSE LET l == pvalue_loop(s, pos)
                 c == compare_and_assign(pos, l.p)
             IN  IF ~l.ok THEN fail
                 ELSE [ret |-> c.ret, pos |-> c.pos,
                       pvalue |-> Slice(s, pos, l.p)]

(***************************************************************************)
(* advance_parameter up to its loop `while (p != last) { }'.  Either the   *)
(* function returns false before the loop (loop = FALSE), or control       *)
(* enters the loop with the local cursor p after the '=' (loop = TRUE);    *)
(* the loop is always entered with p # last.  on_parameter is not called   *)
(* on any path.                                                            *)
(***************************************************************************)
advance_parameter(s, pos) ==
    LET fail == [loop |-> FALSE, ret |-> FALSE, pos |-> pos, p |-> pos]
    IN  IF pos = End(s) THEN fail
        ELSE IF s[pos] # ";" THEN fail
        ELSE IF pos + 1 = End(s) THEN fail
        ELSE LET pname == advance_labeltext(s, pos + 1, <<>>)
             IN  IF ~pname.ret THEN fail
                 ELSE IF pname.pos = End(s) THEN fail
                 ELSE IF s[pname.pos] # "=" THEN fail
                 ELSE IF pname.pos + 1 = End(s) THEN fail
                 ELSE [loop |-> TRUE, ret |-> FALSE, pos |-> pos,
                       p |-> pname.pos + 1]

(***************************************************************************)
(* advance_p before its loop: the two optional clauses.  Their results are *)
(* not looked at; what they wrote stays.                                   *)
(***************************************************************************)
\* After advance_crsp, which returned c: the cursor, the context, the
\* error code and errno as advance_uncp leaves them.
advance_p_uncp(s, ec0, errno0, dp, c) ==
    advance_uncp(s, c.pos, c.ctx, ec0, errno0, dp)

advance_p(s, pos, ctx, ec0, errno0, dp) ==
    advance_p_uncp(s, ec0, errno0, dp, advance_crsp(s, pos, ctx))

(***************************************************************************)
(* advance_geo_path up to the loop of advance_p: enter = FALSE when        *)
(* advance_coordinates failed and advance_geo_path returns false; else     *)
(* pos is the local cursor p of advance_geo_path, on which advance_p works.*)
(***************************************************************************)
\* advance_p has come to its loop, in the state h.
advance_geo_path_p(h) ==
    [enter |-> TRUE, pos |-> h.pos, ctx |-> h.ctx, ec |-> h.ec,
     errno |-> h.errno]

\* After advance_coordinates, which returned c.
advance_geo_path_coordinates(s, pos, dp, c) ==
    IF ~c.ret
    THEN [enter |-> FALSE, pos |-> pos, ctx |-> c.ctx, ec |-> c.ec,
          errno |-> c.errno]
    ELSE advance_geo_path_p(advance_p(s, c.pos, c.ctx, c.ec, c.errno, dp))

advance_geo_path(s, pos, ctx, ec0, errno0, dp) ==
    advance_geo_path_coordinates(s, pos, dp,
        advance_coordinates(s, pos, ctx, ec0, errno0, dp))

(***************************************************************************)
(* advance_geo_uri up to its call of advance_geo_path.  The source tests   *)
(* `p != ':'': the cursor itself, not the character under it, is compared  *)
(* with ':', and a cursor never equals a character.                        *)
(***************************************************************************)
cursor_differs_from(p, ch) == TRUE

advance_geo_uri(s, pos) ==
    LET g == advance_geo_scheme(s, pos)
    IN  IF ~g.ret THEN [enter |-> FALSE, p |-> pos]
        ELSE IF g.pos = End(s) THEN [enter |-> FALSE, p |-> pos]
        ELSE IF cursor_differs_from(g.pos, ":") THEN [enter |-> FALSE, p |-> pos]
        ELSE [enter |-> TRUE, p |-> g.pos + 1]

(***************************************************************************)
(* The texts the calls are made on: every text up to MaxLen characters     *)
(* over the characters that matter to the function, and longer texts built *)
(* of the grammar's pieces and of near misses of them.                     *)
(***************************************************************************)
(***************************************************************************)
(* The composer (pfs/uri/geo/composer.hpp, pfs/rfc5870/composer.hpp).  An  *)
(* output stream is its text, the locale imbued on it, and under           *)
(* `written_under' the name of the locale each number was written with.    *)
(***************************************************************************)
\* std::locale("C") and a locale with another numpunct facet.
locale_C == [name |-> "C", decimal_point |-> ".", thousands_sep |-> ""]

locale_de == [name |-> "de_DE", decimal_point |-> ",", thousands_sep |-> "."]

\* The precision of a stream as constructed (std::ios_base::precision).
precision == 6

Abs(x) == IF x < 0 THEN -x ELSE x

RECURSIVE digits_of(_)
digits_of(a) ==
    IF a < 10 THEN <<DigitChars[a + 1]>>
    ELSE Append(digits_of(a \div 10), DigitChars[(a % 10) + 1])

RECURSIVE zeros(_)
zeros(n) == IF n <= 0 THEN <<>> ELSE <<"0">> \o zeros(n - 1)

RECURSIVE strip_zeros(_)
strip_zeros(d) ==
    IF d # <<>> /\ d[Len(d)] = "0"
    THEN strip_zeros(SubSeq(d, 1, Len(d) - 1))
    ELSE d

\* The digits before the decimal point with the locale's grouping by 3.
RECURSIVE grouped(_, _)
grouped(d, sep) ==
    IF sep = "" \/ Len(d) <= 3 THEN d
    ELSE grouped(SubSeq(d, 1, Len(d) - 3), sep) \o <<sep>>
            \o SubSeq(d, Len(d) - 2, Len(d))

with_fraction(int, frac, loc) ==
    IF frac = <<>> THEN int ELSE int \o <<loc.decimal_point>> \o frac

\* The significant digits r of a number and its decimal exponent X, when
\* rounding has carried into a new digit and when it has not.
carried(r, X) ==
    IF r = Pow10(precision) THEN [digits |-> digits_of(r \div 10), X |-> X + 1]
    ELSE [digits |-> digits_of(r), X |-> X]

\* a / unit rounded to the nearest integer.
rounded(a, unit) == (a \div unit) + (IF 2 * (a % unit) >= unit THEN 1 ELSE 0)

\* a / 10^k, a > 0 of nd digits, rounded to `precision' significant digits.
significand(a, nd, k) ==
    IF nd <= precision THEN [digits |-> digits_of(a), X |-> nd - 1 - k]
    ELSE carried(rounded(a, Pow10(nd - precision)), nd - 1 - k)

\* The style %f as %g uses it: trailing zeros removed.
fixed(sg, loc) ==
    IF sg.X >= 0
    THEN with_fraction(
            grouped(SubSeq(sg.digits \o zeros(sg.X + 1 - Len(sg.digits)),
                           1, sg.X + 1), loc.thousands_sep),
            strip_zeros(SubSeq(sg.digits, sg.X + 2, Len(sg.digits))), loc)
    ELSE with_fraction(<<"0">>, strip_zeros(zeros(-sg.X - 1) \o sg.digits),
                       loc)

\* The style %e as %g uses it.
scientific(sg, loc) ==
    with_fraction(<<sg.digits[1]>>,
                  strip_zeros(SubSeq(sg.digits, 2, Len(sg.digits))), loc)
        \o <<"e", IF sg.X < 0 THEN "-" ELSE "+">>
        \o (IF Abs(sg.X) < 10 THEN <<"0">> ELSE <<>>) \o digits_of(Abs(sg.X))

\* The conversion %g: style e if the exponent X is less than -4 or not
\* less than the precision, style f otherwise.
general(sg, loc) ==
    IF sg.X < -4 \/ sg.X >= precision THEN scientific(sg, loc)
    ELSE fixed(sg, loc)

\* out << n for a number n = <<m, k>> (m / 10^k) on a stream of locale loc.
format_number(n, loc) ==
    IF n[1] = 0 THEN <<"0">>
    ELSE (IF n[1] < 0 THEN <<"-">> ELSE <<>>)
            \o general(significand(Abs(n[1]), Len(digits_of(Abs(n[1]))),
                                   n[2]), loc)

\* A stream as constructed, with locale loc.
ostream(loc) == [text |-> <<>>, loc |-> loc, written_under |-> <<>>]

imbue(out, loc) == [out EXCEPT !.loc = loc]

\* out << s for a text s.
write(out, s) == [out EXCEPT !.text = @ \o s]

\* out << n for a number n.
compose_coordinate(out, n) ==
    [out EXCEPT !.text = @ \o format_number(n, out.loc),
                !.written_under = Append(@, out.loc.name)]

\* The constructor of imbue_C_guard.
imbue_C_guard(out) == [_saved_loc |-> out.loc, _out |-> imbue(out, locale_C)]

\* The destructor of imbue_C_guard.
imbue_C_guard_destructor(guard) == imbue(guard._out, guard._saved_loc)

\* The statement `imbue_C_guard<_OstreamType>{out};': a temporary, which
\* is destroyed at the end of the statement.
imbue_C_guard_statement(out) == imbue_C_guard_destructor(imbue_C_guard(out))

ignore_wgs84_crs == "ignore_wgs84_crs"

relaxed_composer_policy == {ignore_wgs84_crs}

strict_composer_policy == {}

\* composer_interface as constructed: its callbacks write with <<.
composer_interface == [policy |-> relaxed_composer_policy]

test(policy, flag) == flag \in policy

\* compose, from "geo:" to the longitude.
compose_longitude(out, u) ==
    compose_coordinate(
        write(compose_coordinate(write(out, <<"g", "e", "o", ":">>),
                                 u._latitude), <<",">>),
        u._longitude)

compose_altitude(out, u) ==
    IF has_altitude(u)
    THEN compose_coordinate(write(out, <<",">>), u._altitude[1])
    ELSE out

compose_crsp(out, u, policy) ==
    IF ~(is_wgs84(u) /\ ~test(policy, ignore_wgs84_crs))
    THEN write(write(out, <<";", "c", "r", "s", "=">>), u._crslabel)
    ELSE out

\* The same step of operator << of pfs/rfc5870/composer.hpp.
rfc5870_compose_crsp(out, u) ==
    IF ~is_wgs84(u)
    THEN write(write(out, <<";", "c", "r", "s", "=">>), u._crslabel)
    ELSE out

compose_uncp(out, u) ==
    IF has_uncertainty(u)
    THEN compose_coordinate(write(out, <<";", "u", "=">>), u._uval[1])
    ELSE out

\* The lambda given to foreach_parameter.
compose_parameter(out, pname, pvalue) ==
    IF pvalue # <<>>
    THEN write(write(write(write(out, <<";">>), pname), <<"=">>), pvalue)
    ELSE write(write(out, <<";">>), pname)

\* foreach_parameter with that lambda: the entries in the order of the map.
RECURSIVE foreach_parameter(_, _)
foreach_parameter(out, m) ==
    IF m = {} THEN out
    ELSE foreach_parameter(compose_parameter(out, begin(m)[1], begin(m)[2]),
                           m \ {begin(m)})

compose(out, u, ctx) ==
    foreach_parameter(
        compose_uncp(
            compose_crsp(
                compose_altitude(
                    compose_longitude(imbue_C_guard_statement(out), u), u),
                u, ctx.policy),
            u),
        u._parameters)

\* operator << of pfs/rfc5870/composer.hpp.
rfc5870_operator_shift(out, u) ==
    foreach_parameter(
        compose_uncp(
            rfc5870_compose_crsp(
                compose_altitude(
                    compose_longitude(imbue_C_guard_statement(out), u), u),
                u),
            u),
        u._parameters)

\* operator << of pfs/uri/geo/composer.hpp.
operator_shift(out, u) == compose(out, u, composer_interface)

\* like_geo_uri without the test of the ':'.
like_geo_uri_scheme_only(s) ==
    /\ Len(s) >= 3
    /\ is_equals_ignorecase(s[1], "g")
    /\ is_equals_ignorecase(s[2], "e")
    /\ is_equals_ignorecase(s[3], "o")

\* like_geo_uri: the quick classifier, which recognizes the scheme prefix
\* only: the geo-scheme (the literal "geo", case-insensitive) and the ':'.
like_geo_uri(s) ==
    /\ Len(s) >= 4
    /\ is_equals_ignorecase(s[1], "g")
    /\ is_equals_ignorecase(s[2], "e")
    /\ is_equals_ignorecase(s[3], "o")
    /\ s[4] = ":"

first == 1

Concat2(A, B) == {a \o b : a \in A, b \in B}

LongPctTexts ==
    {<<"%", "4", "D">>, <<"%", "4", "2", "x">>, <<"%", "4", "d", "4">>, <<"%", "d", "4", "%">>,
     <<"%", "%", "4", "2">>}

PctTexts == Texts({"%", "4", "d", "x"}, MaxLen) \cup LongPctTexts

SchemeTexts == Texts({"g", "G", "e", "o", "x"}, MaxLen) \cup {<<"g", "e", "o", ":">>}

\* Literals advance_sequence_ignorecase is called with.
Literals ==
    {<<"g", "e", "o">>, <<";", "u", "=">>, <<>>}

\* Numbers, and near misses, that coordinates and clauses are built of.
NumberTokens ==
    {<<>>, <<"5">>, <<"-", "5">>, <<"0", ".", "5">>, <<"5", ".">>,
     <<"5", "0", "0", "0">>}

LongNumberTexts ==
    {<<"-", "5", ".", "5">>, <<"5", ".", "5", "0">>, <<"5", ".", "5", ".">>,
     <<"0", ".", "0", "5">>, <<"-", "5", "0", "0", "0">>, <<"5", "0", "0", "0">>,
     <<"6", ".", "5", "0", "0">>, <<"5", ",", "5">>, <<"5", ".", "5", "x">>}

NumberTexts == Texts({"-", ".", "0", "5"}, MaxLen) \cup LongNumberTexts

Comma == <<",">>

\* A number followed by a character that is no comma.
Junk == {<<"5", "x">>, <<"5", "-", "5">>}

\* Up to three tokens with a comma after each but the last, and the same
\* with the last comma left in place: 'a', 'a,', 'a,b', 'a,b,', 'a,b,c'.
CoordinateTexts ==
    LET A   == NumberTokens \cup Junk
        AB  == {a \o Comma \o b : a \in NumberTokens, b \in A}
        ABC == {ab \o Comma \o c : ab \in AB, c \in A}
    IN  A \cup AB \cup ABC \cup {<<"1", "3", ".", "4", "1", "2", "5", ",", "1", "0", "3", ".", "8", "6", "6", "7">>}

LongLabelTexts ==
    {<<"l", "a", "b", "e", "l", "-", "t", "e", "x", "t", "?">>,
     <<"a", "-", "1", "B">>}

LabelTexts == Texts({"a", "B", "-", "1", "?"}, MaxLen) \cup LongLabelTexts

CrsPrefixes ==
    {<<";", "c", "r", "s", "=">>, <<";", "C", "r", "S", "=">>,
     <<"c", "r", "s", "=">>, <<";", "c", "r", "s">>,
     <<";", "c", "r", "s", "x">>}

CrsLabels ==
    {<<>>, <<"w", "g", "s", "8", "4">>, <<"W", "g", "S", "8", "4">>,
     <<"w", "g", "s", "8">>, <<"w", "g", "s", "8", "x">>,
     <<"w", "g", "s", "8", "4", "-", "x">>, <<"A", "B">>, <<"+", "a", "b">>}

Tails ==
    {<<>>, <<";">>, <<"?">>, <<";", "u", "=", "5">>}

CrspTexts == Concat2(CrsPrefixes, Concat2(CrsLabels, Tails)) \cup {<<>>}

UncPrefixes ==
    {<<";", "u", "=">>, <<";", "U", "=">>, <<"u", "=">>, <<";", "u">>,
     <<";", "u", "x">>}

UncpTexts == Concat2(UncPrefixes, Concat2(NumberTokens, Tails)) \cup {<<>>}

LongPvalueTexts ==
    {<<"a", "%", "2", "d", "b">>, <<"a", "%", "%", "2", "d">>,
     <<"%", "%", "2", "d">>, <<"a", "%", "2", "d">>, <<"[", "a", "]", ";">>}

PvalueTexts == Texts({"a", "%", "2", "d", ";"}, MaxLen) \cup LongPvalueTexts

ParameterTexts ==
    {<<>>, <<";">>, <<"a">>, <<";", "a">>, <<";", "a", "=">>,
     <<";", "a", "=", "b">>, <<";", "A", "=", "b", ";", "c">>,
     <<";", "a", "=", "%", "2", "d">>, <<";", "=", "b">>,
     <<";", "a", ";", "b">>, <<";", "a", "?">>}

\* Clauses that the texts after the coordinates are built of.
Clauses ==
    {<<>>, <<";", "c", "r", "s", "=", "w", "g", "s", "8", "4">>,
     <<";", "c", "r", "s", "=", "a", "b">>, <<";", "u", "=", "5">>,
     <<";", "a">>, <<";", "a", "=", "b">>, <<"?">>}

PTexts == Concat2(Clauses, Concat2(Clauses, Clauses))

Coordinates ==
    {<<"1", ",", "2">>, <<"1", ",", "2", ",", "3">>,
     <<"-", "1", ".", "5", ",", "2">>, <<"1">>, <<"1", ",", "2", ",">>,
     <<"5", "0", "0", "0", ",", "2">>}

PathTails ==
    {<<>>, <<";", "c", "r", "s", "=", "a", "b">>, <<";", "u", "=", "5">>,
     <<";", "a", "=", "b">>, <<";", "a">>,
     <<";", "c", "r", "s", "=", "w", "g", "s", "8", "4", ";", "u", "=", "5">>,
     <<";", "u", "=", "5", ";", "c", "r", "s", "=", "w", "g", "s", "8", "4">>,
     <<";", "a", "=", "b", ";", "c", "r", "s", "=", "w", "g", "s", "8", "4">>,
     <<";", "c", "r", "s", "=", "w", "g", "s", "8", "4", ";", "c", "r", "s", "=", "a", "b">>,
     <<";", "u", "=", "1", ";", "u", "=", "2">>,
     <<";", "u", "=", "6", ".", "5", "0", ";", "A", "=", "b", "%", "2", "d", "c", ";", "d">>,
     <<"?">>}

PathTexts == Concat2(Coordinates, PathTails)

Schemes ==
    {<<"g", "e", "o">>, <<"G", "e", "O">>, <<"g", "e", "x">>, <<"g", "e">>,
     <<"h", "t", "t", "p">>}

Colons ==
    {<<":">>, <<>>, <<"/">>}

\* The URI that the tests and the examples parse.
ExampleUri ==
    <<"g", "e", "o", ":", "6", "6", ",", "3", "0", ";", "u", "=", "6", ".", "5", "0", "0">>
        \o <<";", "F", "O", "o", "=", "t", "h", "i", "s", "%", "2", "d", "t", "h", "a", "t">>
        \o <<";", "B", "a", "r">>

\* The other URIs of the tests.
TestUris ==
    {<<"g", "e", "o", ":", "1", "3", ".", "4", "1", "2", "5", ",", "1", "0", "3", ".", "8", "6", "6", "7">>,
     <<"g", "e", "o", ":", "4", "8", ".", "2", "0", "1", "0", ",", "-", "1", "6", ".", "3", "6", "9", "5", ",", "1", "8", "3">>,
     <<"g", "e", "o", ":", "4", "8", ".", "1", "9", "8", "6", "3", "4", ",", "1", "6", ".", "3", "7", "1", "6", "4", "8">>
        \o <<";", "c", "r", "s", "=", "w", "g", "s", "8", "4", ";", "u", "=", "4", "0">>}

\* 'http://x', 'geo' and 'GeO:x'.
OtherTexts ==
    {<<"h", "t", "t", "p", ":", "/", "/", "x">>, <<"g", "e", "o">>,
     <<"G", "e", "O", ":", "x">>}

UriTexts ==
    Concat2(Schemes, Concat2(Colons, PathTexts)) \cup TestUris
        \cup OtherTexts \cup {ExampleUri, <<>>}

(***************************************************************************)
(* The state: a process that makes one top-level call after another.       *)
(***************************************************************************)
VARIABLES
    pc,             \* "idle", "p_loop", "parameter_loop" or "done"
    op,             \* the function called at top level
    arg,            \* its arguments other than the text, the cursor, the context
    input,          \* the text [first, last)
    pos,            \* the caller's cursor
    ret,            \* the function's result, once pc = "done"
    out,            \* what the call stored through its out-pointer
    ctx,            \* the parse context and its value object
    ec,             \* the caller's error_code
    errno,          \* the C library's errno, which outlives the calls
    decimal_point,  \* the decimal point of the process's C locale
    ppos,           \* the cursor advance_p works on, in its loop
    pp,             \* the local cursor p of advance_parameter, in its loop
    path,           \* the cursor advance_geo_path was entered with
    iters           \* iterations made by the two loops in this call

vars == <<pc, op, arg, input, pos, ret, out, ctx, ec, errno, decimal_point,
          ppos, pp, path, iters>>

ErrorCodes == {errc_success, errc_bad_number}

NoArg == <<>>

NoOut == <<>>

\* The context a caller passes: a fresh value object behind make_context.
ctx0 == make_context(basic_uri)

Init ==
    /\ pc = "idle"
    /\ op = "none"
    /\ arg = NoArg
    /\ input = <<>>
    /\ pos = first
    /\ ret = FALSE
    /\ out = NoOut
    /\ ctx = ctx0
    /\ ec = errc_success
    /\ errno = 0
    /\ decimal_point \in {".", ","}
    /\ ppos = first
    /\ pp = first
    /\ path = first
    /\ iters = 0

\* The call `name' on text s with arguments a begins.
Begin(name, a, s) ==
    /\ pc = "idle"
    /\ op' = name
    /\ arg' = a
    /\ input' = s
    /\ iters' = 0
    /\ UNCHANGED decimal_point

\* The top-level call returns.
Return(r_ret, r_pos, r_out, r_ctx, r_ec, r_errno) ==
    /\ pc' = "done"
    /\ ret' = r_ret
    /\ pos' = r_pos
    /\ out' = r_out
    /\ ctx' = r_ctx
    /\ ec' = r_ec
    /\ errno' = r_errno
    /\ ppos' = first
    /\ pp' = first
    /\ path' = first

\* The call returns r, which holds a cursor and a result only.
ReturnCursor(r) == Return(r.ret, r.pos, NoOut, ctx0, errc_success, errno)

\* The call returns r, which also holds the value r_out of an out-parameter.
ReturnOut(r, r_out) == Return(r.ret, r.pos, r_out, ctx0, errc_success, errno)

\* The call returns r, which also holds the context.
ReturnContext(r) == Return(r.ret, r.pos, NoOut, r.ctx, errc_success, errno)

\* The call returns r, which also holds the context, the error code and
\* errno.
ReturnAll(r) == Return(r.ret, r.pos, NoOut, r.ctx, r.ec, r.errno)

ReturnNumber(r) == Return(r.ret, r.pos, r.pnum, ctx0, r.ec, r.errno)

ReturnPctEncoded(r) == ReturnOut(r, r.result)

ReturnLabeltext(r) == ReturnOut(r, r.labeltext)

ReturnPvalue(r) == ReturnOut(r, r.pvalue)

Call_advance_pct_encoded ==
    \E s \in PctTexts :
        /\ Begin("advance_pct_encoded", NoArg, s)
        /\ ReturnPctEncoded(advance_pct_encoded(s, first, 0))

Call_advance_sequence_ignorecase ==
    \E s \in SchemeTexts, lit \in Literals :
        /\ Begin("advance_sequence_ignorecase", lit, s)
        /\ ReturnCursor(advance_sequence_ignorecase(s, first, lit))

Call_advance_geo_scheme ==
    \E s \in SchemeTexts :
        /\ Begin("advance_geo_scheme", NoArg, s)
        /\ ReturnCursor(advance_geo_scheme(s, first))

Call_advance_number ==
    \E s \in NumberTexts, allow \in BOOLEAN, ec0 \in ErrorCodes :
        /\ Begin("advance_number", [allow_negative_sign |-> allow, ec |-> ec0], s)
        /\ ReturnNumber(advance_number(s, first, allow, Zero, ec0, errno,
                                       decimal_point))

Call_advance_coordinates ==
    \E s \in CoordinateTexts :
        /\ Begin("advance_coordinates", NoArg, s)
        /\ ReturnAll(advance_coordinates(s, first, ctx0, errc_success, errno,
                                         decimal_point))

Call_advance_labeltext ==
    \E s \in LabelTexts :
        /\ Begin("advance_labeltext", NoArg, s)
        /\ ReturnLabeltext(advance_labeltext(s, first, <<>>))

Call_advance_crsp ==
    \E s \in CrspTexts :
        /\ Begin("advance_crsp", NoArg, s)
        /\ ReturnContext(advance_crsp(s, first, ctx0))

Call_advance_uncp ==
    \E s \in UncpTexts :
        /\ Begin("advance_uncp", NoArg, s)
        /\ ReturnAll(advance_uncp(s, first, ctx0, errc_success, errno,
                                  decimal_point))

Call_advance_pvalue ==
    \E s \in PvalueTexts :
        /\ Begin("advance_pvalue", NoArg, s)
        /\ ReturnPvalue(advance_pvalue(s, first, <<>>))

\* Control reaches `while (p != last) { }' of advance_parameter with the
\* local cursor at q.
EnterLoopOfParameter(q) ==
    /\ pc' = "parameter_loop"
    /\ pp' = q

\* advance_parameter returns false, or control reaches its loop.
CallParameter(r) ==
    IF r.loop
    THEN /\ EnterLoopOfParameter(r.p)
         /\ ppos' = first /\ path' = first
         /\ ret' = FALSE /\ pos' = first /\ out' = NoOut
         /\ ctx' = ctx0 /\ ec' = errc_success
         /\ UNCHANGED errno
    ELSE ReturnCursor(r)

Call_advance_parameter ==
    \E s \in ParameterTexts :
        /\ Begin("advance_parameter", NoArg, s)
        /\ CallParameter(advance_parameter(s, first))

\* Control reaches the loop of advance_p in the state h, advance_geo_path
\* having been entered with the cursor q (first when it was not entered).
\* Called at top level, advance_p works on the caller's cursor itself.
EnterLoopOfP(h, q) ==
    /\ pc' = "p_loop"
    /\ ppos' = h.pos
    /\ pp' = first
    /\ path' = q
    /\ pos' = IF op' = "advance_p" THEN h.pos ELSE first
    /\ ret' = FALSE
    /\ out' = NoOut
    /\ ctx' = h.ctx
    /\ ec' = h.ec
    /\ errno' = h.errno

Call_advance_p ==
    \E s \in PTexts :
        /\ Begin("advance_p", NoArg, s)
        /\ EnterLoopOfP(advance_p(s, first, ctx0, errc_success, errno,
                                  decimal_point), first)

\* advance_geo_path, entered with the cursor q, has come to g: it has
\* returned false, or control is at the loop of advance_p.
EnterGeoPath(g, q) ==
    IF g.enter
    THEN EnterLoopOfP(g, q)
    ELSE Return(FALSE, first, NoOut, g.ctx, g.ec, g.errno)

Call_advance_geo_path ==
    \E s \in PathTexts :
        /\ Begin("advance_geo_path", NoArg, s)
        /\ EnterGeoPath(advance_geo_path(s, first, ctx0, errc_success, errno,
                                         decimal_point), first)

\* advance_geo_uri has come to h: it has returned false, or it calls
\* advance_geo_path with the cursor h.p.
EnterGeoUri(s, h) ==
    IF h.enter
    THEN EnterGeoPath(advance_geo_path(s, h.p, ctx0, errc_success, errno,
                                       decimal_point), h.p)
    ELSE Return(FALSE, first, NoOut, ctx0, errc_success, errno)

Call_advance_geo_uri ==
    \E s \in UriTexts :
        /\ Begin("advance_geo_uri", NoArg, s)
        /\ EnterGeoUri(s, advance_geo_uri(s, first))

\* parse(first, last, context): once it has returned, pos is the iterator
\* it returned and ret is what advance_geo_uri returned to it.
Call_parse ==
    \E s \in UriTexts :
        /\ Begin("parse", NoArg, s)
        /\ EnterGeoUri(s, advance_geo_uri(s, first))

(***************************************************************************)
(* The loops.                                                              *)
(***************************************************************************)
\* advance_parameter, called by the loop of advance_p, has come to r.
ReturnAnswer(answer) ==
    Return(answer, first, NoOut, ctx0, errc_success, errno)

Call_like_geo_uri ==
    \E s \in UriTexts :
        /\ Begin("like_geo_uri", NoArg, s)
        /\ ReturnAnswer(like_geo_uri(s))

IterationOfP(r) ==
    IF r.loop
    THEN EnterLoopOfParameter(r.p) /\ UNCHANGED iters
    ELSE pc' = "p_loop" /\ iters' = iters + 1 /\ UNCHANGED pp

\* One iteration of `while (pos != last) advance_parameter(...)'.
p_loop_iteration ==
    /\ pc = "p_loop"
    /\ ppos # End(input)
    /\ iters < MaxIter
    /\ IterationOfP(advance_parameter(input, ppos))
    /\ UNCHANGED <<op, arg, input, pos, ret, out, ctx, ec, errno,
                   decimal_point, ppos, path>>

\* advance_geo_uri after advance_geo_path, which returned in_path.
AfterGeoPath(in_path) ==
    IF in_path.ret THEN compare_and_assign(first, in_path.pos)
    ELSE [pos |-> first, ret |-> FALSE]

\* parse after advance_geo_uri, which returned in_uri.
AfterGeoUri(in_uri) ==
    [ret |-> in_uri.ret, pos |-> IF in_uri.ret THEN in_uri.pos ELSE first]

\* What the callers of advance_p do once it has returned true with the
\* cursor at q: advance_geo_path commits, then advance_geo_uri, then parse.
AfterP(q) ==
    CASE op = "advance_p"        -> [ret |-> TRUE, pos |-> q]
      [] op = "advance_geo_path" -> compare_and_assign(path, q)
      [] op = "advance_geo_uri"  -> AfterGeoPath(compare_and_assign(path, q))
      [] op = "parse"            ->
            AfterGeoUri(AfterGeoPath(compare_and_assign(path, q)))

ReturnAfterP(r) == Return(r.ret, r.pos, out, ctx, ec, errno)

\* The loop of advance_p ends: pos = last.
p_loop_exit ==
    /\ pc = "p_loop"
    /\ ppos = End(input)
    /\ ReturnAfterP(AfterP(ppos))
    /\ UNCHANGED <<op, arg, input, decimal_point, iters>>

\* `while (p != last) { }' of advance_parameter goes round once more.
parameter_loop_spin ==
    /\ pc = "parameter_loop"
    /\ iters < MaxIter
    /\ iters' = iters + 1
    /\ UNCHANGED <<pc, op, arg, input, pos, ret, out, ctx, ec, errno,
                   decimal_point, ppos, pp, path>>

\* The loop has no side effect and cannot end, which is undefined
\* behaviour: a build may assume that it ends and go on, with p as it was
\* or with p = last, the loop's exit condition.  advance_parameter then
\* returns compare_and_assign(pos, p), which is true as p is past pos.
parameter_loop_exit ==
    /\ pc = "parameter_loop"
    /\ \E q \in {pp, End(input)} :
        IF op = "advance_parameter"
        THEN ReturnAfterP(compare_and_assign(pos, q))
        ELSE /\ pc' = "p_loop"
             /\ ppos' = compare_and_assign(ppos, q).pos
             /\ pos' = IF op = "advance_p" THEN ppos' ELSE pos
             /\ UNCHANGED <<ret, out, ctx, ec, errno, pp, path>>
    /\ UNCHANGED <<op, arg, input, decimal_point, iters>>

\* The caller is done with the results of the call; errno and the locale
\* belong to the process and stay.
Reset ==
    /\ pc = "done"
    /\ pc' = "idle"
    /\ op' = "none"
    /\ arg' = NoArg
    /\ input' = <<>>
    /\ pos' = first
    /\ ret' = FALSE
    /\ out' = NoOut
    /\ ctx' = ctx0
    /\ ec' = errc_success
    /\ ppos' = first
    /\ pp' = first
    /\ path' = first
    /\ iters' = 0
    /\ UNCHANGED <<errno, decimal_point>>

Next ==
    \/ Call_advance_pct_encoded
    \/ Call_advance_sequence_ignorecase
    \/ Call_advance_geo_scheme
    \/ Call_advance_number
    \/ Call_advance_coordinates
    \/ Call_advance_labeltext
    \/ Call_advance_crsp
    \/ Call_advance_uncp
    \/ Call_advance_pvalue
    \/ Call_advance_parameter
    \/ Call_advance_p
    \/ Call_advance_geo_path
    \/ Call_advance_geo_uri
    \/ Call_parse
    \/ Call_like_geo_uri
    \/ p_loop_iteration
    \/ p_loop_exit
    \/ parameter_loop_spin
    \/ parameter_loop_exit
    \/ Reset

Spec == Init /\ [][Next]_vars

(***************************************************************************)
(* The value object and the composer as a program uses them                *)
(* (tests/composer.cpp, examples/composer.cpp): it sets the fields of a    *)
(* value object, ctx.uri, and then composes it or asks is_wgs84.           *)
(***************************************************************************)
\* 66, 103.8667, the poles and 30, 5000.
LatitudeValues ==
    {<<66, 0>>, <<1038667, 4>>, max_wgs84_latitude, min_wgs84_latitude}

LongitudeValues == {<<30, 0>>, <<5000, 0>>}

\* 100 and -0.5.
AltitudeValues == {<<100, 0>>, <<-5, 1>>}

\* 6.5 and 0.00001.
UncertaintyValues == {<<65, 1>>, <<1, 5>>}

CrsValues == {wgs84_string, <<"W", "G", "S", "8", "4">>, <<"A", "B", "C">>}

ParameterNames == {<<"f", "o", "o">>, <<"b", "a", "r">>}

\* No value, a value of paramchars, and a value outside paramchar.
ParameterValues == {<<>>, <<"v", "a", "l">>, <<"%">>}

Locales == {locale_C, locale_de}

Policies == {relaxed_composer_policy, strict_composer_policy}

\* A member function that changes the value object to u.
Modify(u) ==
    /\ pc = "idle"
    /\ ctx' = [ctx EXCEPT !.uri = u]
    /\ UNCHANGED <<pc, op, arg, input, pos, ret, out, ec, errno,
                   decimal_point, ppos, pp, path, iters>>

Call_set_latitude == \E n \in LatitudeValues : Modify(set_latitude(ctx.uri, n))

Call_set_longitude ==
    \E n \in LongitudeValues : Modify(set_longitude(ctx.uri, n))

Call_set_altitude == \E n \in AltitudeValues : Modify(set_altitude(ctx.uri, n))

Call_clear_altitude == Modify(clear_altitude(ctx.uri))

Call_set_crs == \E s \in CrsValues : Modify(set_crs(ctx.uri, s))

Call_set_uncertainty ==
    \E n \in UncertaintyValues : Modify(set_uncertainty(ctx.uri, n))

Call_clear_uncertainty == Modify(clear_uncertainty(ctx.uri))

Call_insert ==
    \E pname \in ParameterNames, pvalue \in ParameterValues :
        Modify(insert(ctx.uri, pname, pvalue))

\* A function of the value object returns r_ret and leaves the stream r_out.
ReturnOfValue(r_ret, r_out) == Return(r_ret, first, r_out, ctx, ec, errno)

Call_is_wgs84 ==
    /\ Begin("is_wgs84", NoArg, <<>>)
    /\ ReturnOfValue(is_wgs84(ctx.uri), NoOut)

\* compose(out, u, ctx) on a stream of locale loc.
Call_compose ==
    \E policy \in Policies, loc \in Locales :
        /\ Begin("compose", [policy |-> policy, loc |-> loc], <<>>)
        /\ ReturnOfValue(TRUE, compose(ostream(loc), ctx.uri,
                                       [policy |-> policy]))

\* out << u on a stream of locale loc.
Call_operator_shift ==
    \E loc \in Locales :
        /\ Begin("operator_shift",
                 [policy |-> composer_interface.policy, loc |-> loc], <<>>)
        /\ ReturnOfValue(TRUE, operator_shift(ostream(loc), ctx.uri))

\* std::string compose(u): its stream is constructed with the global
\* locale, which has the decimal point of the process.
Call_compose_string ==
    \E loc \in Locales :
        /\ loc.decimal_point = decimal_point
        /\ Begin("compose_string",
                 [policy |-> composer_interface.policy, loc |-> loc], <<>>)
        /\ ReturnOfValue(TRUE, operator_shift(ostream(loc), ctx.uri))

\* out << u of pfs/rfc5870/composer.hpp on a stream of locale loc.
Call_rfc5870_operator_shift ==
    \E loc \in Locales :
        /\ Begin("rfc5870_operator_shift", [loc |-> loc], <<>>)
        /\ ReturnOfValue(TRUE, rfc5870_operator_shift(ostream(loc), ctx.uri))

Call_basic_uri ==
    \E latitude \in LatitudeValues, longitude \in LongitudeValues :
        Modify(basic_uri_of(latitude, longitude))

Call_is_north_pole ==
    /\ Begin("is_north_pole", NoArg, <<>>)
    /\ ReturnOfValue(is_north_pole(ctx.uri), NoOut)

Call_is_south_pole ==
    /\ Begin("is_south_pole", NoArg, <<>>)
    /\ ReturnOfValue(is_south_pole(ctx.uri), NoOut)

\* A pole is constructed as u and asked what it is: the answer is r_ret.
ReturnOfPole(u, r_ret) ==
    Return(r_ret, first, NoOut, [ctx EXCEPT !.uri = u], ec, errno)

\* is_north_pole(north_pole()).
Call_north_pole ==
    /\ Begin("north_pole", NoArg, <<>>)
    /\ ReturnOfPole(north_pole, is_north_pole(north_pole))

\* is_south_pole(south_pole()).
Call_south_pole ==
    /\ Begin("south_pole", NoArg, <<>>)
    /\ ReturnOfPole(south_pole, is_south_pole(south_pole))

ValueNext ==
    \/ Call_set_latitude
    \/ Call_set_longitude
    \/ Call_set_altitude
    \/ Call_clear_altitude
    \/ Call_set_crs
    \/ Call_set_uncertainty
    \/ Call_clear_uncertainty
    \/ Call_insert
    \/ Call_is_wgs84
    \/ Call_compose
    \/ Call_operator_shift
    \/ Call_compose_string
    \/ Call_rfc5870_operator_shift
    \/ Call_basic_uri
    \/ Call_is_north_pole
    \/ Call_is_south_pole
    \/ Call_north_pole
    \/ Call_south_pole
    \/ Reset

ValueSpec == Init /\ [][ValueNext]_vars

(***************************************************************************)
(* Sequences of calls of the member functions of one value object that     *)
(* change its parameters, its altitude and its uncertainty, followed by a  *)
(* call that reads it.  ctx.calls keeps the calls made, in order.          *)
(***************************************************************************)
\* The most calls made on a value object before it is read.
MaxCalls == 3

\* 0 and 100; 0 and 6.5.
AltitudesSet == {Zero, <<100, 0>>}

UncertaintiesSet == {Zero, <<65, 1>>}

\* The member function `call' changes the value object to u.
Member(u, call) ==
    /\ pc = "idle"
    /\ Len(ctx.calls) < MaxCalls
    /\ ctx' = [uri |-> u, calls |-> Append(ctx.calls, call)]
    /\ UNCHANGED <<pc, op, arg, input, pos, ret, out, ec, errno,
                   decimal_point, ppos, pp, path, iters>>

Member_insert ==
    \E pname \in ParameterNames, pvalue \in ParameterValues :
        Member(insert(ctx.uri, pname, pvalue), <<"insert", pname, pvalue>>)

Member_set_altitude ==
    \E n \in AltitudesSet :
        Member(set_altitude(ctx.uri, n), <<"set_altitude", n>>)

Member_clear_altitude ==
    Member(clear_altitude(ctx.uri), <<"clear_altitude">>)

Member_set_uncertainty ==
    \E n \in UncertaintiesSet :
        Member(set_uncertainty(ctx.uri, n), <<"set_uncertainty", n>>)

Member_clear_uncertainty ==
    Member(clear_uncertainty(ctx.uri), <<"clear_uncertainty">>)

\* A member function that reads the value object returns the value r_out.
Call_count ==
    /\ Begin("count", NoArg, <<>>)
    /\ ReturnOfValue(TRUE, uri_count(ctx.uri))

Call_has_parameter ==
    \E pname \in ParameterNames :
        /\ Begin("has_parameter", pname, <<>>)
        /\ ReturnOfValue(has_parameter(ctx.uri, pname), NoOut)

Call_parameter ==
    \E pname \in ParameterNames :
        /\ Begin("parameter", pname, <<>>)
        /\ ReturnOfValue(TRUE, parameter(ctx.uri, pname))

Call_has_altitude ==
    /\ Begin("has_altitude", NoArg, <<>>)
    /\ ReturnOfValue(has_altitude(ctx.uri), NoOut)

Call_altitude ==
    /\ Begin("altitude", NoArg, <<>>)
    /\ ReturnOfValue(TRUE, altitude(ctx.uri))

Call_has_uncertainty ==
    /\ Begin("has_uncertainty", NoArg, <<>>)
    /\ ReturnOfValue(has_uncertainty(ctx.uri), NoOut)

Call_uncertainty ==
    /\ Begin("uncertainty", NoArg, <<>>)
    /\ ReturnOfValue(TRUE, uncertainty(ctx.uri))

MemberNext ==
    \/ Member_insert
    \/ Member_set_altitude
    \/ Member_clear_altitude
    \/ Member_set_uncertainty
    \/ Member_clear_uncertainty
    \/ Call_count
    \/ Call_has_parameter
    \/ Call_parameter
    \/ Call_has_altitude
    \/ Call_altitude
    \/ Call_has_uncertainty
    \/ Call_uncertainty
    \/ Reset

MemberSpec == Init /\ [][MemberNext]_vars

(***************************************************************************)
(* The grammar of numbers as the source states it with advance_number:     *)
(*     num  = [ "-" ] pnum                                                 *)
(*     pnum = 1*DIGIT [ "." 1*DIGIT ]                                      *)
(* and the decimal value of a text of that grammar.                        *)
(***************************************************************************)
DIGITS(t) == t # <<>> /\ \A i \in 1..Len(t) : is_digit(t[i])

pnum(t) ==
    \E i \in 1..Len(t) :
        /\ DIGITS(SubSeq(t, 1, i))
        /\ \/ i = Len(t)
           \/ t[i + 1] = "." /\ DIGITS(SubSeq(t, i + 2, Len(t)))

num(t, allow_negative_sign) ==
    \/ pnum(t)
    \/ allow_negative_sign /\ t # <<>> /\ t[1] = "-" /\ pnum(Tail(t))

\* The digits of t before and after the point, and the sign.
decimal_parts(t) ==
    LET negative == t[1] = "-"
        u        == IF negative THEN Tail(t) ELSE t
        point    == IF \E i \in 1..Len(u) : u[i] = "." THEN IndexOf(u, ".")
                    ELSE Len(u) + 1
    IN  [negative |-> negative,
         ints     |-> SubSeq(u, 1, point - 1),
         fracs    |-> SubSeq(u, point + 1, Len(u))]

decimal_of(d) ==
    Normalize((IF d.negative THEN -1 ELSE 1) * DigitsValue(d.ints \o d.fracs),
              Len(d.fracs))

\* The value of the text t of the grammar.
decimal(t) == decimal_of(decimal_parts(t))

in_range_of(d) == DigitsValue(d.ints \o d.fracs) <= MaxReal * Pow10(Len(d.fracs))

\* Whether the value of t is within the range of the numeric type.
in_range(t) == in_range_of(decimal_parts(t))

\* The length of the longest prefix of s that is a number, 0 when there is
\* none.
longest_num(s, allow_negative_sign) ==
    LET ends == {i \in 1..Len(s) : num(SubSeq(s, 1, i), allow_negative_sign)}
    IN  IF ends = {} THEN 0 ELSE CHOOSE i \in ends : \A j \in ends : j <= i

\* Whether the number of n characters that s begins with has no fraction
\* and is followed by a '.': digits followed by a '.' that no digit follows.
dangling_point(s, n) ==
    /\ n < Len(s)
    /\ s[n + 1] = "."
    /\ \A i \in 1..n : s[i] # "."

\* The tokens that are numbers within the range of the numeric type.
ValidTokens == {t \in NumberTokens : num(t, TRUE) /\ in_range(t)}

(***************************************************************************)
(* C1                                                                      *)
(***************************************************************************)
\* What the claim says the value object holds after each URI of the tests.
ParseCases ==
    {[text |-> ExampleUri,
      uri  |-> [basic_uri EXCEPT
                  !._latitude = decimal(<<"6", "6">>),
                  !._longitude = decimal(<<"3", "0">>),
                  !._uval = <<decimal(<<"6", ".", "5", "0", "0">>), TRUE>>,
                  !._parameters = {<<<<"f", "o", "o">>, <<"t", "h", "i", "s", "-", "t", "h", "a", "t">>>>,
                                   <<<<"b", "a", "r">>, <<>>>>}]],
     [text |-> <<"g", "e", "o", ":", "1", "3", ".", "4", "1", "2", "5", ",", "1", "0", "3", ".", "8", "6", "6", "7">>,
      uri  |-> [basic_uri EXCEPT
                  !._latitude = decimal(<<"1", "3", ".", "4", "1", "2", "5">>),
                  !._longitude = decimal(<<"1", "0", "3", ".", "8", "6", "6", "7">>)]],
     [text |-> <<"g", "e", "o", ":", "4", "8", ".", "2", "0", "1", "0", ",", "-", "1", "6", ".", "3", "6", "9", "5", ",", "1", "8", "3">>,
      uri  |-> [basic_uri EXCEPT
                  !._latitude = decimal(<<"4", "8", ".", "2", "0", "1", "0">>),
                  !._longitude = decimal(<<"-", "1", "6", ".", "3", "6", "9", "5">>),
                  !._altitude = <<decimal(<<"1", "8", "3">>), TRUE>>]]}

\* C1: parse of a geo-URI returns last and leaves the value object holding
\* the latitude and the longitude of the text, the altitude exactly when a
\* third coordinate was written, the uncertainty of the ';u=' clause, and
\* one parameter for each ';name[=value]' clause, its name in lowercase and
\* its value percent-decoded: so for the URI of the example, which gives
\* 66, 30, no altitude, 6.5 and {foo: 'this-that', bar: ''}.
C1_ParseYieldsTheValueObject ==
    \A c \in ParseCases :
        (pc = "done" /\ op = "parse" /\ input = c.text)
            => (pos = End(input) /\ ctx.uri = c.uri)

(***************************************************************************)
(* C2                                                                      *)
(***************************************************************************)
\* Inputs with the length of their longest prefix that is a geo-URI (0:
\* no prefix is one).
PrefixCases ==
    {[text |-> <<"g", "e", "o", ":", "1", ",", "2", ",", "3">>, prefix |-> 9],
     [text |-> <<"g", "e", "o", ":", "1", ",", "2", ",", "3", "?">>, prefix |-> 9],
     [text |-> <<"g", "e", "o", ":", "1", ",", "2", ",", "3", ";", "u", "=", "5">>, prefix |-> 13],
     [text |-> <<"h", "t", "t", "p", ":", "1", ",", "2", ",", "3">>, prefix |-> 0],
     [text |-> <<"g", "e", "o", "/", "1", ",", "2", ",", "3">>, prefix |-> 0],
     [text |-> <<"g", "e", "o", ":", "1">>, prefix |-> 0],
     [text |-> <<>>, prefix |-> 0]}

\* C2: parse returns the end of the longest prefix of the input that is a
\* geo-URI, and first when no prefix is one (scheme mismatch, missing ':',
\* malformed coordinates); it returns last exactly when the whole input is
\* a geo-URI.
C2_ParseReturnsTheEndOfThePrefix ==
    \A c \in PrefixCases :
        (pc = "done" /\ op = "parse" /\ input = c.text)
            => pos = first + c.prefix

(***************************************************************************)
(* C3                                                                      *)
(***************************************************************************)
\* C3: every top-level parse terminates, as each iteration of the
\* parameter loops (the loop of advance_p, the loop of advance_parameter)
\* either consumes at least one character or ends the loop.
C3_EachIterationConsumesOrEnds ==
    [][/\ (pc = "p_loop" /\ pc' = "p_loop") => ppos' > ppos
       /\ (pc = "parameter_loop" /\ pc' = "parameter_loop") => pp' > pp]_vars

(***************************************************************************)
(* C4                                                                      *)
(***************************************************************************)
\* The functions that return false or true and work on the caller's cursor.
Advancers ==
    {"advance_pct_encoded", "advance_sequence_ignorecase",
     "advance_geo_scheme", "advance_number", "advance_coordinates",
     "advance_labeltext", "advance_crsp", "advance_uncp", "advance_pvalue",
     "advance_parameter", "advance_geo_path", "advance_geo_uri"}

\* C4: whenever an advancer returns false, the caller's cursor is where it
\* was on entry, whatever the input.
C4_FailureLeavesTheCursor ==
    (pc = "done" /\ op \in Advancers /\ ~ret) => pos = first

\* advance_coordinates has failed at 'lat,lon,' with nothing after the
\* second comma: its local cursor was three tokens on.
C4_FailedAfterTwoNumbers ==
    /\ pc = "done"
    /\ op = "advance_coordinates"
    /\ ~ret
    /\ Len(ctx.calls) = 2
    /\ input # <<>>
    /\ input[Len(input)] = ","
    /\ pos = first

(***************************************************************************)
(* C5                                                                      *)
(***************************************************************************)
\* The advancers of the productions that are not empty.
NonEmptyAdvancers ==
    {"advance_geo_scheme", "advance_number", "advance_coordinates",
     "advance_labeltext", "advance_crsp", "advance_uncp", "advance_pvalue",
     "advance_parameter", "advance_geo_path", "advance_geo_uri"}

\* C5: whenever an advancer of a non-empty production returns true, the
\* caller's cursor has moved strictly forward; advance_coordinates on
\* 'lat,lon' returns true with the cursor after the longitude, and
\* advance_geo_uri on 'geo:13.4125,103.8667' with the cursor at the end.
C5_SuccessMovesTheCursorForward ==
    /\ (pc = "done" /\ op \in NonEmptyAdvancers /\ ret) => pos > first
    /\ \A a \in ValidTokens, b \in ValidTokens :
        (pc = "done" /\ op = "advance_coordinates" /\ input = a \o Comma \o b)
            => (ret /\ pos = End(input))
    /\ (pc = "done" /\ op = "advance_geo_uri" /\ input = <<"g", "e", "o", ":", "1", "3", ".", "4", "1", "2", "5", ",", "1", "0", "3", ".", "8", "6", "6", "7">>)
            => (ret /\ pos = End(input))

(***************************************************************************)
(* C6                                                                      *)
(***************************************************************************)
\* C6: advance_coordinates succeeds on num ',' num [',' num], delivering
\* the first number to on_latitude, the second to on_longitude and the
\* third, only when there is one, to on_altitude; it fails on the empty
\* input, on a single number, on 'lat,' and on 'lat,lon,'.
C6_CoordinatesAcceptedAndDelivered ==
    (pc = "done" /\ op = "advance_coordinates") =>
        /\ input = <<>> => ~ret
        /\ \A a \in ValidTokens :
            /\ input = a => ~ret
            /\ input = a \o Comma => ~ret
        /\ \A a \in ValidTokens, b \in ValidTokens :
            /\ input = a \o Comma \o b \o Comma => ~ret
            /\ input = a \o Comma \o b =>
                /\ ret
                /\ ctx.calls = <<<<"on_latitude", decimal(a)>>,
                                 <<"on_longitude", decimal(b)>>>>
        /\ \A a \in ValidTokens, b \in ValidTokens, c \in ValidTokens :
            input = a \o Comma \o b \o Comma \o c =>
                /\ ret
                /\ ctx.calls = <<<<"on_latitude", decimal(a)>>,
                                 <<"on_longitude", decimal(b)>>,
                                 <<"on_altitude", decimal(c)>>>>

(***************************************************************************)
(* C7, C8                                                                  *)
(***************************************************************************)
GeoColon == <<"g", "e", "o", ":">>

\* Coordinates that every clause list of these claims follows.
SomeCoordinates == {<<"1", ",", "2">>, <<"1", ",", "2", ",", "3">>}

\* ';u=' before ';crs=', and ';crs=' after an ordinary parameter.
MisorderedClauses == {<<";", "u", "=", "5", ";", "c", "r", "s", "=", "w", "g", "s", "8", "4">>, <<";", "a", "=", "b", ";", "c", "r", "s", "=", "w", "g", "s", "8", "4">>}

\* 'crs' twice, and 'u' twice.
RepeatedClauses == {<<";", "c", "r", "s", "=", "w", "g", "s", "8", "4", ";", "c", "r", "s", "=", "a", "b">>, <<";", "u", "=", "1", ";", "u", "=", "2">>}

\* The codes of errc that are neither success nor a number that cannot be
\* converted: the codes a semantic-constraint error could have.
SemanticConstraintErrors == ErrorCodes \ {errc_success, errc_bad_number}

\* C7: a parse in which ';u=' stands before ';crs=', or in which 'crs' or
\* 'u' stands after an ordinary parameter, records a semantic-constraint
\* error and fails, and the crs/u text is not delivered as an ordinary
\* parameter.
C7_MisorderedClausesAreAnError ==
    \A c \in SomeCoordinates, m \in MisorderedClauses :
        (/\ pc = "done"
         /\ \/ op \in {"parse", "advance_geo_uri"} /\ input = GeoColon \o c \o m
            \/ op = "advance_geo_path" /\ input = c \o m)
            => /\ ~ret
               /\ ec \in SemanticConstraintErrors
               /\ \A i \in 1..Len(ctx.calls) : ctx.calls[i][1] # "on_parameter"

\* C8: a parse of an input in which 'crs' occurs twice or 'u' occurs twice
\* is rejected with a semantic-constraint error, which differs from a
\* grammar failure; it does not succeed keeping one of the values.
C8_RepeatedClausesAreAnError ==
    \A c \in SomeCoordinates, r \in RepeatedClauses :
        (/\ pc = "done"
         /\ \/ op \in {"parse", "advance_geo_uri"} /\ input = GeoColon \o c \o r
            \/ op = "advance_geo_path" /\ input = c \o r)
            => /\ ~ret
               /\ ec \in SemanticConstraintErrors

(***************************************************************************)
(* C9, C10                                                                 *)
(***************************************************************************)
\* What the claim says of advance_number on a text that begins with a
\* number of n characters (n = 0: with none).
number_accepted(n) ==
    IF n = 0 \/ dangling_point(input, n) THEN ~ret
    ELSE in_range(SubSeq(input, 1, n)) =>
            /\ ret
            /\ pos = first + n
            /\ out = decimal(SubSeq(input, 1, n))

\* C9: advance_number accepts the longest prefix ['-'] 1*DIGIT
\* ['.' 1*DIGIT], the '-' only when allow_negative_sign is true; it fails
\* on the empty input, on '-' alone, on a leading '.' and on digits
\* followed by a '.' that no digit follows; on success it stores the
\* decimal value of the matched text and leaves the cursor just after it.
C9_NumberAcceptedAndStored ==
    (pc = "done" /\ op = "advance_number")
        => number_accepted(longest_num(input, arg.allow_negative_sign))

\* What the claim says of the error code after advance_number on a text
\* that begins with a number of n characters (n = 0: with none).
number_error(n) ==
    IF n # 0 /\ ~dangling_point(input, n) /\ ~in_range(SubSeq(input, 1, n))
    THEN ~ret /\ pos = first /\ ec = errc_bad_number
    ELSE /\ ec = arg.ec
         /\ (n = 0 \/ dangling_point(input, n)) => ~ret

\* C10: advance_number sets the error code to bad_number exactly when
\* the text matched the grammar of a number and the conversion overflowed,
\* returning false with the cursor unchanged; when the text does not match
\* the grammar it returns false and leaves the error code as it was.
C10_BadNumberExactlyOnOverflow ==
    (pc = "done" /\ op = "advance_number")
        => number_error(longest_num(input, arg.allow_negative_sign))

(***************************************************************************)
(* C11                                                                     *)
(***************************************************************************)
\* The call of advance_number has come to what f is: f is what the same
\* call gives in a process that has made no call before.
same_number_as(f) ==
    /\ ret = f.ret
    /\ pos = f.pos
    /\ out = f.pnum
    /\ ec = f.ec

\* The same for a call that works on a context.
same_outcome_as(f) ==
    /\ ret = f.ret
    /\ pos = f.pos
    /\ ctx = f.ctx
    /\ ec = f.ec

\* C11: the outcome of a call (the position returned, the error code, the
\* callbacks fired and their arguments) is a function of its input and
\* its own context only, never of earlier calls: after a call whose
\* number conversion overflowed, a later call gives the result it would
\* give as the first call of the process.
C11_OutcomeIndependentOfEarlierCalls ==
    /\ (pc = "done" /\ op = "advance_number") =>
            same_number_as(advance_number(input, first,
                arg.allow_negative_sign, Zero, arg.ec, 0, decimal_point))
    /\ (pc = "done" /\ op = "advance_coordinates") =>
            same_outcome_as(advance_coordinates(input, first, ctx0,
                errc_success, 0, decimal_point))
    /\ (pc = "done" /\ op = "advance_uncp") =>
            same_outcome_as(advance_uncp(input, first, ctx0,
                errc_success, 0, decimal_point))

(***************************************************************************)
(* C12                                                                     *)
(***************************************************************************)
HexLetters == <<"a", "b", "c", "d", "e", "f">>

HexCapitals == <<"A", "B", "C", "D", "E", "F">>

\* HEXDIG of the grammar pct-encoded = "%" HEXDIG HEXDIG.
HEXDIG(ch) ==
    ch \in Range(DigitChars) \cup Range(HexLetters) \cup Range(HexCapitals)

\* The value of a hexadecimal digit.
hex_value(ch) ==
    CASE ch \in Range(DigitChars)  -> IndexOf(DigitChars, ch) - 1
      [] ch \in Range(HexLetters)  -> IndexOf(HexLetters, ch) + 9
      [] ch \in Range(HexCapitals) -> IndexOf(HexCapitals, ch) + 9

\* C12: advance_pct_encoded succeeds exactly when the input begins with
\* '%' and two hexadecimal digits; it then stores 16 * the first digit +
\* the second and moves the cursor by exactly 3 characters, even when
\* more hexadecimal digits follow; otherwise (empty input, no '%', '%',
\* '%1', '%1x') it returns false and does not move the cursor.
C12_PctEncodedAcceptedAndDecoded ==
    (pc = "done" /\ op = "advance_pct_encoded") =>
        IF /\ Len(input) >= 3
           /\ input[1] = "%"
           /\ HEXDIG(input[2])
           /\ HEXDIG(input[3])
        THEN /\ ret
             /\ pos = first + 3
             /\ out = 16 * hex_value(input[2]) + hex_value(input[3])
        ELSE ~ret /\ pos = first

\* advance_pct_encoded has succeeded on a '%' followed by three
\* hexadecimal digits, a letter among the first two.
C12_DecodedBeforeAThirdDigit ==
    /\ pc = "done"
    /\ op = "advance_pct_encoded"
    /\ ret
    /\ Len(input) = 4
    /\ HEXDIG(input[4])
    /\ input[3] \in Range(HexLetters)
    /\ pos = 4
    /\ out = 77

(***************************************************************************)
(* C13                                                                     *)
(***************************************************************************)
\* Whether a and b are the same character, ignoring the case of a letter.
same_letter(a, b) ==
    \/ a = b
    \/ \E i \in 1..Len(LowerChars) : {a, b} = {LowerChars[i], UpperChars[i]}

\* Whether the text s begins with the literal lit, ignoring case.
begins_with(s, lit) ==
    /\ Len(s) >= Len(lit)
    /\ \A i \in 1..Len(lit) : same_letter(s[i], lit[i])

\* What the claim says of a call on the literal lit.
literal_matched(lit) ==
    IF begins_with(input, lit) THEN ret /\ pos = first + Len(lit)
    ELSE ~ret /\ pos = first

\* C13: advance_sequence_ignorecase, and so advance_geo_scheme with
\* 'geo', returns true only if every character of the literal equals,
\* ignoring case, the input character at the same offset, and then moves
\* the cursor by the literal's length; if a character differs, the last
\* one included ('gex' against 'geo'), or the input ends before the
\* literal does, it returns false and leaves the cursor.
C13_SequenceMatchesEveryCharacter ==
    /\ (pc = "done" /\ op = "advance_sequence_ignorecase")
            => literal_matched(arg)
    /\ (pc = "done" /\ op = "advance_geo_scheme")
            => literal_matched(<<"g", "e", "o">>)

(***************************************************************************)
(* C14                                                                     *)
(***************************************************************************)
\* C14: like_geo_uri(s) is true exactly when s begins with the three
\* letters 'geo', in any letter case, immediately followed by ':'
\* (true for 'geo:1,2'; false for 'http://x', for 'geo' without a colon
\* and for the empty text), whatever follows the colon.
C14_LikeGeoUriIsTheSchemePrefix ==
    (pc = "done" /\ op = "like_geo_uri") =>
        (ret <=> /\ Len(input) >= 4
                 /\ input[1] \in {"g", "G"}
                 /\ input[2] \in {"e", "E"}
                 /\ input[3] \in {"o", "O"}
                 /\ input[4] = ":")

\* like_geo_uri has answered true on a text in mixed case whose
\* coordinates are not a number.
C14_AcceptedWhateverFollows ==
    /\ pc = "done"
    /\ op = "like_geo_uri"
    /\ ret
    /\ input[1] = "G"
    /\ input[3] = "O"
    /\ Len(input) > 4
    /\ ~is_digit(input[5])
    /\ input[5] # "-"

(***************************************************************************)
(* C15                                                                     *)
(***************************************************************************)
\* The places of the calls of the callback name among the calls made.
calls_of(name) == {i \in DOMAIN ctx.calls : ctx.calls[i][1] = name}

\* The callbacks of the productions before the parameters.
FieldCallbacks ==
    {"on_latitude", "on_longitude", "on_altitude", "on_crslabel", "on_uval"}

\* The operations that parse the coordinates with what follows them.
CoordinateParsers ==
    {"advance_coordinates", "advance_geo_path", "advance_geo_uri", "parse"}

decimal_digits(d, k) ==
    IF k = 0 THEN d
    ELSE SubSeq(d, 1, Len(d) - k) \o <<".">> \o SubSeq(d, Len(d) - k + 1, Len(d))

decimal_text(n) ==
    (IF n[1] < 0 THEN <<"-">> ELSE <<>>)
        \o decimal_digits(zeros(n[2] + 1 - Len(digits_of(Abs(n[1]))))
                            \o digits_of(Abs(n[1])), n[2])

\* The parameter names of the model in ascending order.
NamesAscending == << <<"b", "a", "r">>, <<"f", "o", "o">> >>

\* The clause of the parameter pname of u, if u has it.
parameter_clause(u, pname) ==
    IF \E e \in u._parameters : e[1] = pname
    THEN LET e == CHOOSE e \in u._parameters : e[1] = pname
         IN  <<";">> \o pname
                \o (IF e[2] # <<>> THEN <<"=">> \o e[2] ELSE <<>>)
    ELSE <<>>

crs_clause(u) == <<";", "c", "r", "s", "=">> \o u._crslabel

\* The texts the claim allows for u: the crs clause is there when the crs
\* is not wgs84, and there or not, as the policy has it, when it is.
composed_texts(u) ==
    {<<"g", "e", "o", ":">> \o decimal_text(u._latitude) \o <<",">>
        \o decimal_text(u._longitude)
        \o (IF has_altitude(u) THEN <<",">> \o decimal_text(u._altitude[1])
            ELSE <<>>)
        \o c
        \o (IF has_uncertainty(u)
            THEN <<";", "u", "=">> \o decimal_text(u._uval[1]) ELSE <<>>)
        \o parameter_clause(u, NamesAscending[1])
        \o parameter_clause(u, NamesAscending[2]) :
     c \in IF is_wgs84(u) THEN {<<>>, crs_clause(u)} ELSE {crs_clause(u)}}

ComposeOperations == {"compose", "operator_shift", "compose_string"}

\* C16: compose(u) is, for every value object u, 'geo:' + latitude + ','
\* + longitude, then ',' + altitude exactly when has_altitude, then the
\* ';crs=' clause (subject to the CRS policy), then ';u=' + uncertainty
\* exactly when has_uncertainty, then for each parameter in ascending
\* order of name, whatever the order of the insert calls, ';' + name
\* followed by '=' + value exactly when the value is not empty.
C16_ComposedTextOfEveryValue ==
    (pc = "done" /\ op \in ComposeOperations) =>
        out.text \in composed_texts(ctx.uri)

(***************************************************************************)
(* C17                                                                     *)
(***************************************************************************)
\* Whether the text t has the text sub in it.
contains(t, sub) ==
    \E i \in 1..(Len(t) - Len(sub) + 1) : SubSeq(t, i, i + Len(sub) - 1) = sub

\* C17: compose with the flag ignore_wgs84_crs set (relaxed policy, the
\* default of composer_interface) writes no ';crs=' clause when
\* u.is_wgs84() is true; with the flag clear (strict policy) it writes
\* ';crs=wgs84'; under both policies it writes ';crs=<label>' when the
\* crs is not wgs84.
C17_PolicyDecidesTheWgs84Clause ==
    (pc = "done" /\ op \in ComposeOperations) =>
        IF is_wgs84(ctx.uri)
        THEN IF ignore_wgs84_crs \in arg.policy
             THEN ~contains(out.text, <<";", "c", "r", "s", "=">>)
             ELSE contains(out.text, crs_clause(ctx.uri))
        ELSE contains(out.text, crs_clause(ctx.uri))

(***************************************************************************)
(* C18                                                                     *)
(***************************************************************************)
\* C18: at every point where compose, or operator <<, writes a latitude,
\* a longitude, an altitude or an uncertainty to the stream, the locale
\* imbued on the stream is the "C" locale, whatever locale the stream had
\* when compose was called: the decimal separator written is always '.'.
C18_NumbersWrittenUnderTheCLocale ==
    (pc = "done"
        /\ op \in ComposeOperations \cup {"rfc5870_operator_shift"}) =>
        \A i \in DOMAIN out.written_under : out.written_under[i] = "C"

(***************************************************************************)
(* C19                                                                     *)
(***************************************************************************)
\* The text composed of the value object u.
composed(u) == compose(ostream(locale_C), u, composer_interface).text

\* Whether the text t is parsed in full, by what the model has of parse
\* as a function: advance_geo_uri up to the geo-path, and the coordinates
\* of the geo-path, which are those of u.
parses_to(t, u) ==
    /\ advance_geo_uri(t, first).enter
    /\ LET c == advance_coordinates(Slice(t, 5, End(t)), first, ctx0,
                                    errc_success, 0, ".").ctx.uri
       IN  /\ c._latitude = u._latitude
           /\ c._longitude = u._longitude
           /\ c._altitude = u._altitude

\* C19: for every text s that is a geo-URI by the grammar, parse(s)
\* succeeds consuming all of s, and the text composed of the resulting
\* value object parses in full to a value object equal to the one parsed
\* from s.
C19_ComposedTextParsesToTheSameValue ==
    (pc = "done" /\ op = "parse" /\ input \in TestUris \cup {ExampleUri}) =>
        /\ pos = End(input)
        /\ parses_to(composed(ctx.uri), ctx.uri)

(***************************************************************************)
(* C20                                                                     *)
(***************************************************************************)
\* Whether the texts a and b are equal ignoring the case of letters.
equal_ignoring_case(a, b) ==
    /\ Len(a) = Len(b)
    /\ \A i \in 1..Len(a) : same_letter(a[i], b[i])

\* C20: is_wgs84() is true exactly when the crs of the value object was
\* never set or the crs last set equals 'wgs84' ignoring letter case (so
\* it is true after set_crs('WGS84')), and false for every other label.
C20_Wgs84IgnoringCase ==
    (pc = "done" /\ op = "is_wgs84") =>
        (ret <=> equal_ignoring_case(ctx.uri._crslabel,
                                     <<"w", "g", "s", "8", "4">>))

(***************************************************************************)
(* C21                                                                     *)
(***************************************************************************)
\* What the claim says of the pole at the latitude given: the answer for
\* a value object, and the value object constructed as that pole.
pole_at(latitude, is_pole, pole) ==
    /\ (pc = "done" /\ op = is_pole) =>
          (ret <=> ctx.uri._crslabel = <<"w", "g", "s", "8", "4">>
                      /\ ctx.uri._latitude = <<latitude, 0>>)
    /\ (pc = "done" /\ op = pole) =>
          /\ ret
          /\ ctx.uri._crslabel = <<"w", "g", "s", "8", "4">>
          /\ ctx.uri._latitude = <<latitude, 0>>
          /\ ctx.uri._longitude = <<0, 0>>

LabelChars ==
    Range(LowerChars) \cup Range(UpperChars) \cup Range(DigitChars) \cup {"-"}

\* The end of the longest run of label characters of s from p on.
run_end(s, p) ==
    CHOOSE q \in p..End(s) :
        /\ \A i \in p..(q - 1) : s[i] \in LabelChars
        /\ q = End(s) \/ s[q] \notin LabelChars

\* C22: advance_labeltext succeeds exactly when the character at the
\* cursor is a letter, a digit or '-': it then consumes the longest run of
\* such characters, stores exactly that run and leaves the cursor at the
\* first character outside the set ('label-text?' gives 'label-text' with
\* the cursor on '?'); on the empty input or a first character outside
\* the set it returns false.
C22_LabeltextIsTheLongestRun ==
    (pc = "done" /\ op = "advance_labeltext") =>
        IF input # <<>> /\ input[1] \in LabelChars
        THEN /\ ret
             /\ pos = run_end(input, first)
             /\ out = SubSeq(input, 1, pos - 1)
        ELSE ~ret /\ pos = first

\* advance_labeltext has stopped on the '?' of 'label-text?'.
C22_StoppedAfterLabelText ==
    /\ pc = "done"
    /\ op = "advance_labeltext"
    /\ ret
    /\ Len(input) = 11
    /\ pos = 11
    /\ input[pos] = "?"
    /\ out = <<"l", "a", "b", "e", "l", "-", "t", "e", "x", "t">>

(***************************************************************************)
(* C23                                                                     *)
(***************************************************************************)
\* The lowercase form of a text.
lowercase(t) ==
    [i \in 1..Len(t) |->
        IF t[i] \in Range(UpperChars)
        THEN LowerChars[IndexOf(UpperChars, t[i])] ELSE t[i]]

crs_prefix == <<";", "c", "r", "s", "=">>

\* The labeltext of the input after ';crs='.
crs_label == SubSeq(input, 6, run_end(input, 6) - 1)

\* C23: advance_crsp succeeds exactly on ';crs=' (any letter case)
\* followed by a non-empty labeltext, and delivers to on_crslabel the
\* lowercase form of the label ('wgs84' for 'WgS84', 'label' for 'LABEL');
\* it fails on the empty input, without the leading ';' and on a label that
\* starts with a character outside labeltext, and then on_crslabel is not
\* called.
C23_CrspDeliversTheLowercaseLabel ==
    (pc = "done" /\ op = "advance_crsp") =>
        IF begins_with(input, crs_prefix) /\ Len(input) >= 6
              /\ input[6] \in LabelChars
        THEN /\ ret
             /\ ctx.calls = << <<"on_crslabel", lowercase(crs_label)>> >>
        ELSE ~ret /\ ctx.calls = <<>>

(***************************************************************************)
(* C24                                                                     *)
(***************************************************************************)
\* What the claim says of advance_uncp on ';u=' followed by a text that
\* begins with a number of n characters (n = 0: with none), that number
\* being within the range of the numeric type and not followed by a '.'.
uval_accepted(t, n) ==
    IF n = 0 THEN ~ret /\ pos = first /\ ctx.calls = <<>>
    ELSE (in_range(SubSeq(t, 1, n)) /\ ~dangling_point(t, n)) =>
            /\ ret
            /\ pos = first + 3 + n
            /\ ctx.calls = << <<"on_uval", decimal(SubSeq(t, 1, n))>> >>

\* C24: advance_uncp succeeds exactly on ';u=' followed by an unsigned
\* number 1*DIGIT ['.' 1*DIGIT], delivering its value to on_uval once; it
\* fails, without calling on_uval and without moving the cursor, on the
\* empty input, on ';u=' with nothing after it, without the leading ';',
\* and on a value with a leading '-'.
C24_UncpAcceptedAndDelivered ==
    (pc = "done" /\ op = "advance_uncp") =>
        IF begins_with(input, <<";", "u", "=">>)
        THEN uval_accepted(SubSeq(input, 4, Len(input)),
                           longest_num(SubSeq(input, 4, Len(input)), FALSE))
        ELSE ~ret /\ pos = first /\ ctx.calls = <<>>

(***************************************************************************)
(* C25                                                                     *)
(***************************************************************************)
\* The characters of p-unreserved and unreserved.
ParamChars ==
    LabelChars \cup {"[", "]", ":", "&", "+", "$"}
        \cup {"_", ".", "!", "~", "*", "'", "(", ")"}

\* Whether "%" HEXDIG HEXDIG stands at p in s.
pct_at(s, p) ==
    /\ p + 2 <= Len(s)
    /\ s[p] = "%"
    /\ HEXDIG(s[p + 1])
    /\ HEXDIG(s[p + 2])

\* The end of the longest run of paramchars of s from p on.
RECURSIVE paramchars_end(_, _)
paramchars_end(s, p) ==
    IF p <= Len(s) /\ s[p] \in ParamChars THEN paramchars_end(s, p + 1)
    ELSE IF pct_at(s, p) THEN paramchars_end(s, p + 3)
    ELSE p

\* The character of a code, for the codes of the model's texts.
chr(code) ==
    CASE code = 45 -> "-"
      [] code = 34 -> "\""
      [] OTHER     -> "<other>"

\* A run of paramchars with every '%HH' replaced by the character of
\* code HH.
RECURSIVE percent_decoded(_)
percent_decoded(t) ==
    IF t = <<>> THEN <<>>
    ELSE IF t[1] = "%"
    THEN <<chr(16 * hex_value(t[2]) + hex_value(t[3]))>>
            \o percent_decoded(SubSeq(t, 4, Len(t)))
    ELSE <<t[1]>> \o percent_decoded(Tail(t))

\* What the claim says of advance_pvalue on an input whose longest run of
\* paramchars ends at e; it says nothing certain of a run followed by a
\* '%' that no two hexadecimal digits follow.
pvalue_accepted(e) ==
    IF e = first THEN ~ret
    ELSE (e = End(input) \/ input[e] # "%") =>
            /\ ret
            /\ pos = e
            /\ out = percent_decoded(SubSeq(input, 1, e - 1))

\* C25: advance_pvalue succeeds exactly when at least one paramchar
\* (p-unreserved, unreserved, or '%' followed by two hexadecimal digits)
\* stands at the cursor: it consumes the longest run of paramchars and
\* stores that run with every '%HH' replaced by the character of code HH
\* ('this%2dthat' is consumed in full and gives 'this-that'); it fails
\* on the empty input and on a '%' not followed by two hexadecimal digits.
C25_PvalueConsumedAndDecoded ==
    (pc = "done" /\ op = "advance_pvalue")
        => pvalue_accepted(paramchars_end(input, first))

(***************************************************************************)
(* C26                                                                     *)
(***************************************************************************)
\* What the claim says of advance_parameter on ';' pname, the name ending
\* at n, and the value, if there is one after a '=', ending at v.
parameter_accepted(n, v) ==
    /\ ret
    /\ Len(ctx.calls) = 1
    /\ ctx.calls[1][1] = "on_parameter"
    /\ equal_ignoring_case(ctx.calls[1][2], SubSeq(input, 2, n - 1))
    /\ IF n <= Len(input) /\ input[n] = "=" /\ v > n + 1
       THEN /\ ctx.calls[1][3] = percent_decoded(SubSeq(input, n + 1, v - 1))
            /\ pos = v
       ELSE /\ ctx.calls[1][3] = <<>>
            /\ pos = n

\* C26: advance_parameter succeeds on ';' pname and on ';' pname '='
\* pvalue, calling on_parameter exactly once, with (pname, '') in the first
\* form and (pname, pvalue) in the second, and leaving the cursor just
\* after the parameter; a name with no '=' at the end of the input is
\* accepted as a flag with an empty value; on the empty input it returns
\* false and on_parameter is not called.
C26_ParameterAcceptedAndDelivered ==
    (pc = "done" /\ op = "advance_parameter") =>
        /\ input = <<>> => ~ret /\ ctx.calls = <<>>
        /\ (Len(input) >= 2 /\ input[1] = ";" /\ input[2] \in LabelChars)
              => parameter_accepted(run_end(input, 2),
                    paramchars_end(input, run_end(input, 2) + 1))

(***************************************************************************)
(* C27                                                                     *)
(***************************************************************************)
\* The insert calls made on the value object, in order.
inserts == SelectSeq(ctx.calls, LAMBDA c : c[1] = "insert")

names_inserted == {inserts[i][2] : i \in DOMAIN inserts}

\* The value of the first insert of the name.
first_insert_of(name) ==
    inserts[CHOOSE i \in DOMAIN inserts :
                /\ inserts[i][2] = name
                /\ \A j \in 1..(i - 1) : inserts[j][2] # name][3]

\* C27: after any sequence of insert calls the value object holds one
\* parameter for each distinct name inserted, with the value of the first
\* insert of that name: the names held are pairwise distinct, count() is the
\* number of distinct names inserted, an insert of a name that is present
\* changes nothing, and parameter(name) returns the first value.
C27_ParametersAreTheFirstInserts ==
    /\ \A e1 \in ctx.uri._parameters, e2 \in ctx.uri._parameters :
           e1[1] = e2[1] => e1 = e2
    /\ ctx.uri._parameters
           = {<<name, first_insert_of(name)>> : name \in names_inserted}
    /\ (pc = "done" /\ op = "count")
           => out = Cardinality(names_inserted)
    /\ (pc = "done" /\ op = "has_parameter")
           => (ret <=> arg \in names_inserted)
    /\ (pc = "done" /\ op = "parameter" /\ arg \in names_inserted)
           => out = first_insert_of(arg)

\* parameter(name) has returned the first of two different values inserted
\* under the name.
C27_SecondInsertOfTheName ==
    /\ pc = "done"
    /\ op = "parameter"
    /\ Len(inserts) >= 2
    /\ inserts[1][2] = arg
    /\ inserts[2][2] = arg
    /\ inserts[1][3] # inserts[2][3]
    /\ out = inserts[1][3]

(***************************************************************************)
(* C28                                                                     *)
(***************************************************************************)
\* The state that the calls named set_name and clear_name leave: the value
\* and the flag of the last set_name call when no clear_name call follows
\* it, and 0 and no flag otherwise.
left_by(set_name, clear_name) ==
    LET made == SelectSeq(ctx.calls,
                          LAMBDA c : c[1] \in {set_name, clear_name})
    IN  IF Len(made) = 0 \/ made[Len(made)][1] = clear_name
        THEN <<Zero, FALSE>>
        ELSE <<made[Len(made)][2], TRUE>>

\* C28: after any sequence of set_altitude, clear_altitude, set_uncertainty
\* and clear_uncertainty calls, has_altitude() is true exactly when the last
\* altitude call was set_altitude, whatever the value, and altitude() is
\* that value; otherwise has_altitude() is false and altitude() is 0.  The
\* same holds for the uncertainty, and neither depends on the calls for the
\* other.
C28_AltitudeAndUncertaintyAreTheLastCalls ==
    /\ (pc = "done" /\ op = "has_altitude")
           => (ret <=> left_by("set_altitude", "clear_altitude")[2])
    /\ (pc = "done" /\ op = "altitude")
           => out = left_by("set_altitude", "clear_altitude")[1]
    /\ (pc = "done" /\ op = "has_uncertainty")
           => (ret <=> left_by("set_uncertainty", "clear_uncertainty")[2])
    /\ (pc = "done" /\ op = "uncertainty")
           => out = left_by("set_uncertainty", "clear_uncertainty")[1]

\* has_altitude() has returned true after set_altitude(0) followed by
\* clear_uncertainty().
C28_AltitudeSetTo0ThenUncertaintyCleared ==
    /\ pc = "done"
    /\ op = "has_altitude"
    /\ ret
    /\ Len(ctx.calls) = 3
    /\ ctx.calls[1][1] = "set_uncertainty"
    /\ ctx.calls[2][1] = "set_altitude"
    /\ ctx.calls[2][2] = Zero
    /\ ctx.calls[3][1] = "clear_uncertainty"

(***************************************************************************)
(* C29                                                                     *)
(***************************************************************************)
\* The pieces of the text t between the occurrences of the character ch.
RECURSIVE split(_, _)
split(t, ch) ==
    IF \A i \in 1..Len(t) : t[i] # ch THEN <<t>>
    ELSE LET i == CHOOSE k \in 1..Len(t) :
                      t[k] = ch /\ \A j \in 1..(k - 1) : t[j] # ch
         IN  <<SubSeq(t, 1, i - 1)>> \o split(SubSeq(t, i + 1, Len(t)), ch)

\* The clauses after the geo-path of the text t that are neither the
\* 'crs=' nor the 'u=' clause.
parameter_clauses(t) ==
    LET cl == Tail(split(t, ";"))
    IN  {cl[i] : i \in {k \in DOMAIN cl :
                          /\ SubSeq(cl[k], 1, 4) # <<"c", "r", "s", "=">>
                          /\ SubSeq(cl[k], 1, 2) # <<"u", "=">>}}

\* parameter = ";" pname [ "=" pvalue ], for the clause c after the ';'.
is_parameter(c) ==
    /\ run_end(c, 1) > 1
    /\ \/ run_end(c, 1) = End(c)
       \/ /\ c[run_end(c, 1)] = "="
          /\ run_end(c, 1) + 1 < End(c)
          /\ paramchars_end(c, run_end(c, 1) + 1) = End(c)

\* The name and the decoded value that the clause c stands for.
parameter_of(c) ==
    <<SubSeq(c, 1, run_end(c, 1) - 1),
      percent_decoded(SubSeq(c, run_end(c, 1) + 2, Len(c)))>>

\* C29: for every value object u whose parameter names are lowercase
\* labeltext and whose parameter values are arbitrary strings, also with
\* characters outside paramchar, compose(u) is a geo-URI by the grammar
\* and parsing it in full gives back the parameter set and the coordinates
\* of u.
C29_ComposedParametersParseBack ==
    (pc = "done" /\ op \in ComposeOperations) =>
        /\ \A c \in parameter_clauses(out.text) : is_parameter(c)
        /\ {parameter_of(c) : c \in parameter_clauses(out.text)}
               = ctx.uri._parameters
        /\ parses_to(out.text, ctx.uri)

\* C29, for a value outside paramchar: the text composed of a value object
\* that has a parameter whose value is '%' is a geo-URI by the grammar,
\* each of its parameter clauses being ";" pname [ "=" pvalue ].
C29_ValueOutsideParamchar ==
    (pc = "done" /\ op \in ComposeOperations
        /\ \E e \in ctx.uri._parameters : e[2] = <<"%">>) =>
        \A c \in parameter_clauses(out.text) : is_parameter(c)

(***************************************************************************)
(* C30                                                                     *)
(***************************************************************************)
\* C30: when advance_crsp succeeds, it has consumed the whole labeltext
\* that follows ';crs=': the cursor never stops at a letter, a digit or
\* '-', and the label delivered to on_crslabel is that whole labeltext, so
\* a label that merely begins with 'wgs84' (';crs=wgs84-x') is delivered
\* in full and not reported as 'wgs84'.
C30_CrspConsumesTheWholeLabel ==
    (pc = "done" /\ op = "advance_crsp" /\ ret) =>
        /\ pos = End(input) \/ input[pos] \notin LabelChars
        /\ Len(ctx.calls) = 1
        /\ equal_ignoring_case(ctx.calls[1][2], SubSeq(input, 6, pos - 1))

=============================================================================
